---- MODULE Spec2Model ----
(***************************************************************************)
(* The streaming chunk pipeline of gpt_agent: a provider adapter           *)
(* (GeminiService.generate_standard_response / generate_thinking_response  *)
(* or Agent.ask_with_streaming_chunks) is wrapped by the aggregator        *)
(* (_create_response_stream), which is wrapped by the wire encoder         *)
(* (_stream_response_chunks), which is read by the HTTP transport.         *)
(*                                                                         *)
(* Every layer is a Python async generator.  A generator is modelled by    *)
(* its program counter (the yield it is suspended at) and its locals; an   *)
(* action runs one generator from the point where it is resumed to the     *)
(* point where it hands control to another layer (a pull of its source, a  *)
(* yield to its consumer, a return, or a raise into its own handler).      *)
(* turn names the layer that runs and xfer is what was handed to it.       *)
(*                                                                         *)
(* Text is a sequence of characters so that concatenation and split() are  *)
(* computed, not assumed.                                                  *)
(***************************************************************************)
EXTENDS Integers, Sequences, FiniteSets, TLC

(* ---------------------------- bounds ----------------------------------- *)

\* upstream response objects (Gemini) delivered in one exchange
MaxFetch == 2
\* text parts (Gemini) or streamed tokens (agent) / scripted chunks in one exchange
MaxParts == 3

(* ---------------------------- values ----------------------------------- *)

\* Python None, one per field type
NoneText == <<"None">>
NoneInt == -1
NoneStr == "None"

\* request.question: QuestionRequest.question is Optional[str] = ""
Questions == {NoneText, <<>>, <<"q", " ", "q">>}

\* part.text of an upstream part: absent (None), empty, or some text
PartTexts == {NoneText, <<>>, <<"a">>, <<" ", "b">>}

\* if part.text: neither None nor the empty string
HasText(text) == text # NoneText /\ text # <<>>

\* tokens the agent's callback handler streams
AgentTokens == {<<"a">>, <<" ", "b">>}

\* a final agent result that is not the streamed text: a tool result that
\* validates as an AgentFlow, one that starts with the marker but does not
\* validate, and a plain string
ToolResults == {<<"{", "s">>, <<"{", "x">>, <<"r">>}

\* what an upstream response object carries as usage_metadata: no such
\* attribute, None, both totals, a total without a thoughts_token_count
\* attribute, a total with thoughts_token_count None, or total_token_count None
UsageKinds == {"noattr", "null", "full", "nothoughts", "nullthoughts", "nulltotal"}

\* response and hasattr(response, 'usage_metadata'), where "none" says that
\* no response object was received
HasUsageMetadata(kind) == kind \notin {"none", "noattr"}

\* the total of the agent run's LLM responses (response.usage.total_tokens),
\* or None when the provider reported none
AgentUsages == {NoneInt, 9}

\* total_token_count / thoughts_token_count of a response with usage totals
UpstreamUsage == [total |-> 7, thoughts |-> 2]

\* response.usage_metadata.total_token_count
UsageTotal(kind) == IF kind = "nulltotal" THEN NoneInt ELSE UpstreamUsage.total

\* getattr(response.usage_metadata, 'thoughts_token_count', 0)
UsageThoughts(kind) ==
    IF kind = "nothoughts" THEN 0
    ELSE IF kind = "nullthoughts" THEN NoneInt
    ELSE UpstreamUsage.thoughts

\* an upstream part, as far as the adapters look at it: part.text and
\* part.thought; before the first one there is none
NoPart == [text |-> <<>>, thought |-> FALSE]

\* the three question routes
Routes == {"questions", "chat-gemini", "thinking-chat-gemini"}

\* sessions_repo.find_session(session_id): None, a session of another user,
\* or a session of the caller
Lookups == {"absent", "other", "own"}

\* what a route handler answers: nothing yet, the 404 of _find_session, or a
\* StreamingResponse
NoResponse == [status |-> "none", detail |-> NoneStr]

NotFound == [status |-> "404", detail |-> "session not found"]

Streaming == [status |-> "200", detail |-> NoneStr]

\* the identities get_current_user returns
Users == {"u", "v"}

\* SessionBase.locales: List[str], which may be empty
LocaleLists == {<<>>, <<<<"e">>>>, <<<<"f">>, <<"e">>>>}

\* Session.id: uuid.uuid4()
SessionIds == {"A", "B"}

\* Session(**req.model_dump(), user=user)
MkSession(id, user, locales) == [id |-> id, user |-> user, locales |-> locales]

NoSession == MkSession(NoneStr, NoneStr, <<>>)

\* get_session_path(session.id) + "/chat_history.json": the file is named
\* after the session's id
HistoryFile(id) == <<"sessions", id, "chat_history.json">>

HistoryFiles == {HistoryFile(id) : id \in SessionIds}

\* the create_session calls that may run side by side
Creates == {1, 2}

\* the two exchanges that may run side by side
Exchanges == {1, 2}

\* the question of each of them
AskedQuestion(e) == IF e = 1 THEN <<"q">> ELSE <<"r">>

\* the texts of the upstream fragments that carry answer text
FragmentTexts == {<<"a">>, <<" ", "b">>}

\* the two sessions the store holds when the exchanges start
StoredSessions ==
    [c \in Creates |->
        IF c = 1 THEN MkSession("A", "u", <<<<"e">>>>)
                 ELSE MkSession("B", "v", <<<<"f">>, <<"e">>>>)]

\* the sessions an exchange may be on: the first exchange is on the first
\* session, the other one on the same session or on the other
SessionsOf(e) == IF e = 1 THEN {1} ELSE Creates

\* the message start_session left in the session's history
LocaleMessage == [role |-> "user", text |-> <<"l">>]

(* ------------------------- StreamingChunk ------------------------------ *)

MkChunk(t, c, n, tt, e) ==
    [type |-> t, content |-> c, tokens |-> n, thoughts_tokens |-> tt, error |-> e]

ContentChunk(text) == MkChunk("content", text, NoneInt, NoneInt, NoneStr)

ThoughtChunk(text) == MkChunk("thought", text, NoneInt, NoneInt, NoneStr)

TokensChunk(n) == MkChunk("tokens", NoneText, n, NoneInt, NoneStr)

ThinkingTokensChunk(n, tt) == MkChunk("tokens", NoneText, n, tt, NoneStr)

ErrorChunk(e) == MkChunk("error", NoneText, NoneInt, NoneInt, e)

EndChunk == MkChunk("end", NoneText, NoneInt, NoneInt, NoneStr)

NoChunk == MkChunk("none", NoneText, NoneInt, NoneInt, NoneStr)

\* the fields model_dump_json(exclude_none=True) keeps
PopulatedFields(c) ==
    {"type"}
    \cup (IF c.content # NoneText THEN {"content"} ELSE {})
    \cup (IF c.tokens # NoneInt THEN {"tokens"} ELSE {})
    \cup (IF c.thoughts_tokens # NoneInt THEN {"thoughts_tokens"} ELSE {})
    \cup (IF c.error # NoneStr THEN {"error"} ELSE {})

\* Frame with model_dump_json() keeping the null fields
Frame_AllFields(c) ==
    [prefix |-> "data: ",
     json |-> c,
     suffix |-> "\n\n"]

\* f"data: {chunk.model_dump_json(exclude_none=True)}\n\n"
Frame(c) ==
    [prefix |-> "data: ",
     json |-> [f \in PopulatedFields(c) |-> c[f]],
     suffix |-> "\n\n"]

\* serialization can fail only on text that came from the model output
\* (a str that cannot be encoded, e.g. a lone surrogate)
MaySerializeFail(c) == c.type \in {"content", "thought"} /\ c.content # NoneText

(* ------------------------------ text ----------------------------------- *)

RECURSIVE WordsFrom(_, _, _)
WordsFrom(t, i, inWord) ==
    IF i > Len(t) THEN 0
    ELSE IF t[i] = " " THEN WordsFrom(t, i + 1, FALSE)
    ELSE (IF inWord THEN 0 ELSE 1) + WordsFrom(t, i + 1, TRUE)

\* len(text.split())
Words(t) == WordsFrom(t, 1, FALSE)

\* final_result.startswith("{\"steps\":")
StartsWithSteps(t) == Len(t) > 0 /\ t[1] = "{"

\* AgentFlow.model_validate_json(final_result) does not raise
ValidAgentFlow(t) == t = <<"{", "s">>

(* -------------------------- token usage -------------------------------- *)

\* the value a computation returns, or the fact that it raised
Returned(n, tt) == [raised |-> FALSE, tokens |-> n, thoughts |-> tt]

Raised == [raised |-> TRUE, tokens |-> NoneInt, thoughts |-> NoneInt]

\* the fallback estimate of _extract_token_usage; message.split() raises on
\* None
EstimateTokens(message, full) ==
    IF message = NoneText
    THEN Raised
    ELSE Returned(Words(full) + Words(message), NoneInt)

\* _extract_token_usage without its except clause
ExtractTokenUsage_NoHandler(response, message, full) ==
    IF HasUsageMetadata(response)
    THEN IF response = "null"
         THEN Raised
         ELSE Returned(UsageTotal(response), NoneInt)
    ELSE EstimateTokens(message, full)

\* GeminiService._extract_token_usage.  response is "none" or the usage kind
\* of the last response object.  Reading total_token_count of a None
\* usage_metadata raises, and the handler returns the estimate.
ExtractTokenUsage(response, message, full) ==
    IF HasUsageMetadata(response)
    THEN IF response = "null"
         THEN EstimateTokens(message, full)
         ELSE Returned(UsageTotal(response), NoneInt)
    ELSE EstimateTokens(message, full)

\* the fallback estimate of _extract_thinking_token_usage
EstimateThinkingTokens(message, full, thoughts) ==
    IF message = NoneText
    THEN Raised
    ELSE Returned(Words(full) + Words(message) + Words(thoughts), Words(thoughts))

\* GeminiService._extract_thinking_token_usage
ExtractThinkingTokenUsage(response, message, full, thoughts) ==
    IF HasUsageMetadata(response)
    THEN IF response = "null"
         THEN EstimateThinkingTokens(message, full, thoughts)
         ELSE Returned(UsageTotal(response), UsageThoughts(response))
    ELSE EstimateThinkingTokens(message, full, thoughts)

\* max(1, int(x)) of TokenUsageTracker.calculate_tokens
AtLeastOne(n) == IF n < 1 THEN 1 ELSE n

\* TokenUsageTracker.calculate_tokens: max(1, int((wi + wo) * 0.75))
CalculateTokens(q, full) ==
    IF q = NoneText
    THEN Raised
    ELSE Returned(AtLeastOne((3 * (Words(q) + Words(full))) \div 4), NoneInt)

(* ---------------------------- history ---------------------------------- *)

\* GeminiService._build_gemini_contents: HumanMessage -> role user,
\* AIMessage -> role model
BuildGeminiContents(h) ==
    [i \in 1..Len(h) |->
        [role |-> IF h[i].role = "user" THEN "user" ELSE "model",
         parts |-> <<h[i].text>>]]

(* ----------------------------- state ----------------------------------- *)

VARIABLES
    route,          \* the question route the request came to
    lookup,         \* what sessions_repo.find_session has for the request
    http,           \* the response the route handler returned
    constructed,    \* the adapter sequences constructed for the request
    adapter,        \* which sequence the route wraps; "script" in the harness
    encSource,      \* what the encoder reads: "aggregator" or "adapter"
    question,       \* request.question
    turn,           \* the layer that runs
    xfer,           \* what was handed to it
    conPc,          \* the transport that reads the response body
    encPc, wire, encFail,
    aggPc, complete_answer, aggOut, saveCalls, aggErr,
    adPc, full_response, full_thoughts, final_response, final_result,
    pending, nFetched, nParts, adapterOut,
    agent_usage,    \* what the provider reported for the agent run
    task,           \* the agent run started with asyncio.create_task
    waiting,        \* the thread on which the adapter waits for the upstream
    part,           \* the upstream part the Gemini adapter looked at last
    nTextParts,     \* the upstream parts with a text it has looked at
    history, contents,
    created,        \* the create_session calls
    session_saves,  \* the sessions handed to sessions_repo.save_session
    chat_history,   \* the chat_history.json of every session
    exch            \* the exchanges that run side by side

reqVars == <<route, lookup, http>>

inputs == <<adapter, encSource, question>>

ctl == <<turn, xfer>>

encVars == <<encPc, wire, encFail>>

aggVars == <<aggPc, complete_answer, aggOut, saveCalls, aggErr>>

adVars == <<adPc, full_response, full_thoughts, final_response, final_result,
            pending, nFetched, nParts, adapterOut, agent_usage, part,
            nTextParts, task, waiting>>

histVars == <<history, contents>>

sessVars == <<created, session_saves, chat_history, exch>>

\* the state of the single request of the question routes
pipeVars == <<reqVars, constructed, inputs, ctl, conPc, encVars, aggVars, adVars, histVars>>

vars == <<reqVars, sessVars, constructed, inputs, ctl, conPc, encVars, aggVars, adVars,
          histVars>>

GeminiAdapters == {"standard", "thinking"}

Adapters == GeminiAdapters \cup {"openai"}

Msg(k, c, e) == [kind |-> k, chunk |-> c, err |-> e]

PullMsg == Msg("next", NoChunk, NoneStr)

ChunkMsg(c) == Msg("chunk", c, NoneStr)

StopMsg == Msg("stop", NoChunk, NoneStr)

RaiseMsg(e) == Msg("raise", NoChunk, e)

\* the layer the encoder iterates
Src == IF encSource = "aggregator" THEN "aggregator" ELSE "adapter"

\* the layer that iterates the adapter sequence
Up == IF encSource = "aggregator" THEN "aggregator" ELSE "encoder"

\* the layers of one request before anything ran
InitLayers ==
    /\ http = NoResponse /\ constructed = <<>>
    /\ xfer = PullMsg
    /\ encPc = "start" /\ wire = <<>> /\ encFail = "none"
    /\ aggPc = "start" /\ complete_answer = <<>> /\ aggOut = <<>>
    /\ saveCalls = <<>> /\ aggErr = FALSE
    /\ adPc = "start" /\ full_response = <<>> /\ full_thoughts = <<>>
    /\ final_response = "none" /\ final_result = NoneText
    /\ agent_usage = NoneInt /\ part = NoPart /\ nTextParts = 0
    /\ task = "none" /\ waiting = "none"
    /\ pending = 0 /\ nFetched = 0 /\ nParts = 0 /\ adapterOut = <<>>
    /\ history = <<LocaleMessage>> /\ contents = <<>>

InitCommon ==
    /\ question \in Questions
    /\ InitLayers

\* one request and nothing else: no create_session call and no other exchange
SingleRequest ==
    /\ created = <<>> /\ session_saves = <<>>
    /\ chat_history = <<>> /\ exch = <<>>

\* a request to one of the question routes, before its handler runs
Init ==
    /\ SingleRequest
    /\ route \in Routes /\ lookup \in Lookups
    /\ adapter = "none"
    /\ encSource = "aggregator"
    /\ turn = "route" /\ conPc = "idle"
    /\ InitCommon

\* Agent.ask iterated directly, as its unit test does
InitAsk ==
    /\ SingleRequest
    /\ route = "none" /\ lookup = "own"
    /\ adapter = "ask"
    /\ encSource = "adapter"
    /\ turn = "adapter" /\ conPc = "reading"
    /\ InitCommon

\* the unit tests' arrangement: a scripted chunk generator handed to
\* _create_response_stream or directly to _stream_response_chunks
InitHarness ==
    /\ SingleRequest
    /\ route = "none" /\ lookup = "own"
    /\ adapter = "script"
    /\ encSource \in {"aggregator", "adapter"}
    /\ turn = "consumer" /\ conPc = "reading"
    /\ InitCommon

(* ------------------------- question routes ----------------------------- *)

\* _find_session without the test of the session's user
FindSession_IdOnly(found) == IF found = "absent" THEN NotFound ELSE Streaming

\* _find_session: if not ret or ret.user != user: raise HTTPException(404)
FindSession(found) == IF found = "own" THEN Streaming ELSE NotFound

\* create_gemini_generator with use_thinking ignored
GeminiGenerator_IgnoresFlag(use_thinking) == "standard"

\* create_gemini_generator: the sequence use_thinking selects
GeminiGenerator(use_thinking) == IF use_thinking THEN "thinking" ELSE "standard"

\* a route handler: resolve the session, then return a StreamingResponse over
\* _stream_response_chunks(chunk_generator); nothing of the chain runs before
\* the transport asks for the first frame
RouteHandler(r, a) ==
    /\ turn = "route" /\ route = r
    /\ http' = FindSession(lookup)
    /\ IF FindSession(lookup) = NotFound
       THEN /\ turn' = "none"
            /\ UNCHANGED <<adapter, conPc>>
       ELSE /\ adapter' = a
            /\ conPc' = "reading"
            /\ turn' = "consumer"
    /\ UNCHANGED <<route, lookup, sessVars, nTextParts, constructed, encSource, question, xfer,
                   encVars, aggVars, adVars, histVars>>

\* POST /sessions/{session_id}/questions
answer_question == RouteHandler("questions", "openai")

\* POST /sessions/{session_id}/chat-gemini
chat == RouteHandler("chat-gemini", GeminiGenerator(FALSE))

\* POST /sessions/{session_id}/thinking-chat-gemini
chat_thinking == RouteHandler("thinking-chat-gemini", GeminiGenerator(TRUE))

(* --------------------------- transport --------------------------------- *)

\* StreamingResponse asks the body iterator for its next frame
ConsumerPull ==
    /\ turn = "consumer" /\ conPc = "reading"
    /\ turn' = "encoder" /\ xfer' = PullMsg
    /\ UNCHANGED <<reqVars, sessVars, nTextParts, constructed, inputs, conPc, encVars, aggVars, adVars, histVars>>

(* ---------------- wire encoder: _stream_response_chunks ---------------- *)

\* async for chunk in chunk_generator: ask the source for the next chunk
EncoderPull ==
    /\ turn = "encoder" /\ xfer.kind = "next" /\ encPc \in {"start", "loop"}
    /\ encPc' = "pull"
    /\ turn' = Src /\ xfer' = PullMsg
    /\ UNCHANGED <<reqVars, sessVars, nTextParts, constructed, inputs, conPc, wire, encFail, aggVars, adVars, histVars>>

\* yield f"data: {chunk.model_dump_json(exclude_none=True)}\n\n", or the
\* serialization raises inside the try
EncoderOnChunk ==
    /\ turn = "encoder" /\ xfer.kind = "chunk" /\ encPc = "pull"
    /\ \/ /\ wire' = Append(wire, Frame(xfer.chunk))
          /\ encPc' = "loop"
          /\ turn' = "consumer" /\ xfer' = PullMsg
       \/ /\ MaySerializeFail(xfer.chunk)
          /\ xfer' = RaiseMsg("encode")
          /\ UNCHANGED <<wire, encPc, turn>>
    /\ UNCHANGED <<reqVars, sessVars, nTextParts, constructed, inputs, conPc, encFail, aggVars, adVars, histVars>>

\* EncoderOnStop that returns without an end frame
EncoderOnStop_NoEnd ==
    /\ turn = "encoder" /\ xfer.kind = "stop" /\ encPc = "pull"
    /\ encPc' = "end"
    /\ turn' = "consumer" /\ xfer' = PullMsg
    /\ UNCHANGED <<reqVars, sessVars, nTextParts, constructed, inputs, conPc, wire, encFail, aggVars, adVars, histVars>>

\* the source is exhausted: yield the end frame
EncoderOnStop ==
    /\ turn = "encoder" /\ xfer.kind = "stop" /\ encPc = "pull"
    /\ wire' = Append(wire, Frame(EndChunk))
    /\ encPc' = "end"
    /\ turn' = "consumer" /\ xfer' = PullMsg
    /\ UNCHANGED <<reqVars, sessVars, nTextParts, constructed, inputs, conPc, encFail, aggVars, adVars, histVars>>

\* EncoderExcept that logs the exception and raises it again
EncoderExcept_Reraise ==
    /\ turn = "encoder" /\ xfer.kind = "raise"
    /\ encFail' = IF xfer.err = "encode" THEN "encode" ELSE "source"
    /\ encPc' = "done"
    /\ conPc' = "done"
    /\ turn' = "none" /\ xfer' = xfer
    /\ UNCHANGED <<reqVars, sessVars, nTextParts, constructed, inputs, wire, aggVars, adVars, histVars>>

\* EncoderExcept with the end frame in a finally clause
EncoderExcept_ThenEnd ==
    /\ turn = "encoder" /\ xfer.kind = "raise"
    /\ wire' = wire \o <<Frame(ErrorChunk(xfer.err)), Frame(EndChunk)>>
    /\ encFail' = IF xfer.err = "encode" THEN "encode" ELSE "source"
    /\ encPc' = "err"
    /\ turn' = "consumer" /\ xfer' = PullMsg
    /\ UNCHANGED <<reqVars, sessVars, nTextParts, constructed, inputs, conPc, aggVars, adVars, histVars>>

\* EncoderExcept that goes back to the loop after its error frame
EncoderExcept_Continue ==
    /\ turn = "encoder" /\ xfer.kind = "raise"
    /\ wire' = Append(wire, Frame(ErrorChunk(xfer.err)))
    /\ encFail' = IF xfer.err = "encode" THEN "encode" ELSE "source"
    /\ encPc' = IF xfer.err = "encode" THEN "loop" ELSE "err"
    /\ turn' = "consumer" /\ xfer' = PullMsg
    /\ UNCHANGED <<reqVars, sessVars, nTextParts, constructed, inputs, conPc, aggVars, adVars, histVars>>

\* except Exception as e: yield the error frame
EncoderExcept ==
    /\ turn = "encoder" /\ xfer.kind = "raise"
    /\ wire' = Append(wire, Frame(ErrorChunk(xfer.err)))
    /\ encFail' = IF xfer.err = "encode" THEN "encode" ELSE "source"
    /\ encPc' = "err"
    /\ turn' = "consumer" /\ xfer' = PullMsg
    /\ UNCHANGED <<reqVars, sessVars, nTextParts, constructed, inputs, conPc, aggVars, adVars, histVars>>

\* resumed after the end frame or the error frame: the generator returns
EncoderReturn ==
    /\ turn = "encoder" /\ xfer.kind = "next" /\ encPc \in {"end", "err"}
    /\ encPc' = "done"
    /\ conPc' = "done"
    /\ turn' = "none" /\ xfer' = StopMsg
    /\ UNCHANGED <<reqVars, sessVars, nTextParts, constructed, inputs, wire, encFail, aggVars, adVars, histVars>>

(* ----------------- aggregator: _create_response_stream ----------------- *)

\* Accumulate without the test of the chunk's type
Accumulate_AnyKind(acc, c) ==
    IF c.content # NoneText /\ c.content # <<>>
    THEN acc \o c.content
    ELSE acc

\* if chunk.type == "content" and chunk.content: complete_answer += chunk.content
Accumulate(acc, c) ==
    IF c.type = "content" /\ c.content # NoneText /\ c.content # <<>>
    THEN acc \o c.content
    ELSE acc

\* Question(question=request.question, answer=complete_answer, session=session)
MkQuestion(q, a) == [question |-> q, answer |-> a, session |-> "A"]

\* complete_answer = ""; response_generator_func(request.question) builds the
\* service or agent and returns its sequence, or raises
AggStart ==
    /\ turn = "aggregator" /\ xfer.kind = "next" /\ aggPc = "start"
    /\ complete_answer' = <<>>
    /\ aggPc' = "pull"
    /\ \/ /\ constructed' = Append(constructed, adapter)
          /\ turn' = "adapter" /\ xfer' = PullMsg
       \/ /\ turn' = turn /\ xfer' = RaiseMsg("construct")
          /\ UNCHANGED constructed
    /\ UNCHANGED <<reqVars, sessVars, nTextParts, inputs, conPc, encVars, aggOut, saveCalls, aggErr, adVars, histVars>>

\* resumed at the yield in the loop: ask the wrapped sequence for its next chunk
AggPull ==
    /\ turn = "aggregator" /\ xfer.kind = "next" /\ aggPc = "loop"
    /\ aggPc' = "pull"
    /\ turn' = "adapter" /\ xfer' = PullMsg
    /\ UNCHANGED <<reqVars, sessVars, nTextParts, constructed, inputs, conPc, encVars, complete_answer, aggOut, saveCalls,
                   aggErr, adVars, histVars>>

\* AggOnChunk with the yield indented into the if: only chunks that were
\* accumulated are forwarded
AggOnChunk_YieldInsideIf ==
    /\ turn = "aggregator" /\ xfer.kind = "chunk" /\ aggPc = "pull"
    /\ complete_answer' = Accumulate(complete_answer, xfer.chunk)
    /\ IF complete_answer' # complete_answer
       THEN /\ aggOut' = Append(aggOut, xfer.chunk)
            /\ aggPc' = "loop"
            /\ turn' = "encoder" /\ xfer' = ChunkMsg(xfer.chunk)
       ELSE /\ turn' = "adapter" /\ xfer' = PullMsg
            /\ UNCHANGED <<aggOut, aggPc>>
    /\ UNCHANGED <<reqVars, sessVars, nTextParts, constructed, inputs, conPc, encVars, saveCalls, aggErr, adVars, histVars>>

\* AggOnChunk that persists as soon as it sees the tokens chunk
AggOnChunk_SaveOnTokens ==
    /\ turn = "aggregator" /\ xfer.kind = "chunk" /\ aggPc = "pull"
    /\ complete_answer' = Accumulate(complete_answer, xfer.chunk)
    /\ saveCalls' = IF xfer.chunk.type = "tokens" /\ question # NoneText
                    THEN Append(saveCalls, [question |-> question,
                                            answer |-> complete_answer',
                                            session |-> "A"])
                    ELSE saveCalls
    /\ aggOut' = Append(aggOut, xfer.chunk)
    /\ aggPc' = "loop"
    /\ turn' = "encoder" /\ xfer' = ChunkMsg(xfer.chunk)
    /\ UNCHANGED <<reqVars, sessVars, nTextParts, constructed, inputs, conPc, encVars, aggErr, adVars, histVars>>

\* the loop body: accumulate, then yield chunk
AggOnChunk ==
    /\ turn = "aggregator" /\ xfer.kind = "chunk" /\ aggPc = "pull"
    /\ complete_answer' = Accumulate(complete_answer, xfer.chunk)
    /\ aggOut' = Append(aggOut, xfer.chunk)
    /\ aggPc' = "loop"
    /\ turn' = "encoder" /\ xfer' = ChunkMsg(xfer.chunk)
    /\ UNCHANGED <<reqVars, sessVars, nTextParts, constructed, inputs, conPc, encVars, saveCalls, aggErr, adVars, histVars>>

\* AggOnStop that skips persistence when the last chunk was an error chunk
AggOnStop_SkipAfterError ==
    /\ turn = "aggregator" /\ xfer.kind = "stop" /\ aggPc = "pull"
    /\ IF aggOut # <<>> /\ aggOut[Len(aggOut)].type = "error"
       THEN /\ aggPc' = "done" /\ turn' = "encoder" /\ xfer' = StopMsg
            /\ UNCHANGED saveCalls
       ELSE IF question = NoneText
       THEN /\ xfer' = RaiseMsg("question")
            /\ UNCHANGED <<turn, aggPc, saveCalls>>
       ELSE /\ saveCalls' = Append(saveCalls, [question |-> question,
                                               answer |-> complete_answer,
                                               session |-> "A"])
            /\ \/ aggPc' = "done" /\ turn' = "encoder" /\ xfer' = StopMsg
               \/ xfer' = RaiseMsg("save") /\ UNCHANGED <<turn, aggPc>>
    /\ UNCHANGED <<reqVars, sessVars, nTextParts, constructed, inputs, conPc, encVars, complete_answer, aggOut, aggErr,
                   adVars, histVars>>

\* after the loop: build the Question (validation rejects question=None) and
\* await questions_repo.save_question(question)
AggOnStop ==
    /\ turn = "aggregator" /\ xfer.kind = "stop" /\ aggPc = "pull"
    /\ IF question = NoneText
       THEN /\ xfer' = RaiseMsg("question")
            /\ UNCHANGED <<turn, aggPc, saveCalls>>
       ELSE /\ saveCalls' = Append(saveCalls, MkQuestion(question, complete_answer))
            /\ \/ aggPc' = "done" /\ turn' = "encoder" /\ xfer' = StopMsg
               \/ xfer' = RaiseMsg("save") /\ UNCHANGED <<turn, aggPc>>
    /\ UNCHANGED <<reqVars, sessVars, nTextParts, constructed, inputs, conPc, encVars, complete_answer, aggOut, aggErr,
                   adVars, histVars>>

\* except Exception as e: yield StreamingChunk(type="error", error=str(e))
AggExcept ==
    /\ turn = "aggregator" /\ xfer.kind = "raise"
    /\ aggOut' = Append(aggOut, ErrorChunk(xfer.err))
    /\ aggErr' = TRUE
    /\ aggPc' = "err"
    /\ turn' = "encoder" /\ xfer' = ChunkMsg(ErrorChunk(xfer.err))
    /\ UNCHANGED <<reqVars, sessVars, nTextParts, constructed, inputs, conPc, encVars, complete_answer, saveCalls, adVars, histVars>>

\* resumed after its own error chunk: the generator returns
AggReturn ==
    /\ turn = "aggregator" /\ xfer.kind = "next" /\ aggPc = "err"
    /\ aggPc' = "done"
    /\ turn' = "encoder" /\ xfer' = StopMsg
    /\ UNCHANGED <<reqVars, sessVars, nTextParts, constructed, inputs, conPc, encVars, complete_answer, aggOut, saveCalls,
                   aggErr, adVars, histVars>>

(* ------------------------ adapters, common ----------------------------- *)

\* yield chunk: the chunk goes to the layer that iterates the adapter
AdapterYield(c) ==
    /\ adapterOut' = Append(adapterOut, c)
    /\ turn' = Up /\ xfer' = ChunkMsg(c)

\* an exception inside the adapter's try: control goes to its handler
AdapterRaise(e) ==
    /\ turn' = turn /\ xfer' = RaiseMsg(e)

\* AdapterExcept that logs the exception and returns without an error chunk
AdapterExcept_Silent ==
    /\ turn = "adapter" /\ xfer.kind = "raise" /\ adapter \in Adapters
    /\ adPc' = "done"
    /\ turn' = Up /\ xfer' = StopMsg
    /\ UNCHANGED <<reqVars, sessVars, nTextParts, constructed, inputs, conPc, encVars, aggVars, full_response, full_thoughts,
                   final_response, final_result, agent_usage, task, waiting, part, pending, nFetched, nParts,
                   adapterOut, histVars>>

\* except Exception as e: yield StreamingChunk(type="error", error=str(e))
\* (the same handler in the three adapters)
AdapterExcept ==
    /\ turn = "adapter" /\ xfer.kind = "raise" /\ adapter \in Adapters
    /\ AdapterYield(ErrorChunk(xfer.err))
    /\ adPc' = "err"
    /\ UNCHANGED <<reqVars, sessVars, nTextParts, constructed, inputs, conPc, encVars, aggVars, full_response, full_thoughts,
                   final_response, final_result, agent_usage, task, waiting, part, pending, nFetched, nParts, histVars>>

\* resumed after the tokens chunk or the error chunk: the generator returns
AdapterReturn ==
    /\ turn = "adapter" /\ xfer.kind = "next" /\ adPc \in {"tokens", "err"}
    /\ adapter \in Adapters
    /\ adPc' = "done"
    /\ turn' = Up /\ xfer' = StopMsg
    /\ UNCHANGED <<reqVars, sessVars, nTextParts, constructed, inputs, conPc, encVars, aggVars, full_response, full_thoughts,
                   final_response, final_result, agent_usage, task, waiting, part, pending, nFetched, nParts,
                   adapterOut, histVars>>

(* ------- GeminiService.generate_standard_response / _thinking_response -- *)

\* add_user_message(message) (the history rejects a None message and its
\* file write can fail), then read the history and build the contents
GeminiStart ==
    /\ turn = "adapter" /\ xfer.kind = "next" /\ adPc = "start"
    /\ adapter \in GeminiAdapters
    /\ \/ /\ AdapterRaise("history")
          /\ UNCHANGED <<adPc, waiting, histVars>>
       \/ /\ question # NoneText
          /\ history' = Append(history, [role |-> "user", text |-> question])
          /\ contents' = BuildGeminiContents(history')
          /\ adPc' = "call"
          /\ waiting' = "thread"
          /\ UNCHANGED ctl
    /\ UNCHANGED <<reqVars, sessVars, nTextParts, constructed, inputs, conPc, encVars, aggVars, full_response, full_thoughts,
                   final_response, final_result, agent_usage, task, part, pending, nFetched, nParts, adapterOut>>

\* generator = await asyncio.to_thread(_sync_generate): the call made in the
\* worker thread returns the fragment iterator or raises
GeminiCalled ==
    /\ turn = "adapter" /\ xfer.kind = "next" /\ adPc = "call"
    /\ adapter \in GeminiAdapters
    /\ waiting' = "none"
    /\ \/ AdapterRaise("upstream") /\ UNCHANGED adPc
       \/ adPc' = "loop" /\ UNCHANGED ctl
    /\ UNCHANGED <<reqVars, sessVars, nTextParts, constructed, inputs, conPc, encVars, aggVars, full_response,
                   full_thoughts, final_response, final_result, agent_usage, part, task,
                   pending, nFetched, nParts, adapterOut, histVars>>

\* for chunk in generator: the adapter's coroutine calls next(generator)
\* itself, so the wait for the fragment runs on the event-loop thread
GeminiNext ==
    /\ turn = "adapter" /\ xfer.kind = "next" /\ adPc = "loop" /\ pending = 0
    /\ adapter \in GeminiAdapters
    /\ waiting = "none" /\ waiting' = "loop"
    /\ UNCHANGED <<reqVars, sessVars, nTextParts, constructed, inputs, ctl, conPc, encVars, aggVars, adPc,
                   full_response, full_thoughts, final_response, final_result, agent_usage,
                   part, task, pending, nFetched, nParts, adapterOut, histVars>>

\* async for chunk in self._generate_content_stream_async(...): the upstream
\* call or the iteration raises, the stream is exhausted, or a response object
\* with some number of parts arrives (final_response = chunk); what it
\* carries as usage_metadata is not looked at before the loop has ended
GeminiFetch ==
    /\ turn = "adapter" /\ xfer.kind = "next" /\ adPc = "loop" /\ pending = 0
    /\ waiting = "loop" /\ waiting' = "none"
    /\ adapter \in GeminiAdapters
    /\ \/ /\ AdapterRaise("upstream")
          /\ UNCHANGED <<adPc, final_response, pending, nFetched, nParts>>
       \/ /\ adPc' = "after"
          /\ UNCHANGED <<ctl, final_response, pending, nFetched, nParts>>
       \/ /\ nFetched < MaxFetch
          /\ \E n \in 0..(MaxParts - nParts) :
                /\ final_response' = "chunk"
                /\ pending' = n
                /\ nParts' = nParts + n
          /\ nFetched' = nFetched + 1
          /\ UNCHANGED <<ctl, adPc>>
    /\ UNCHANGED <<reqVars, sessVars, nTextParts, constructed, inputs, conPc, encVars, aggVars, full_response, full_thoughts,
                   final_result, agent_usage, task, part, adapterOut, histVars>>

\* PartChunk without the test of part.thought
PartChunk_IgnoresFlag(a, text, thought) == ContentChunk(text)

\* PartChunk with the test of part.thought in both Gemini adapters
PartChunk_AnyAdapter(a, text, thought) ==
    IF thought THEN ThoughtChunk(text) ELSE ContentChunk(text)

\* the chunk a part with text becomes: the thinking adapter looks at the
\* part's thought flag, the standard adapter does not
PartChunk(a, text, thought) ==
    IF a = "thinking" /\ thought THEN ThoughtChunk(text) ELSE ContentChunk(text)

\* GeminiPart that adds the text of every part to full_response
GeminiPart_ThoughtsInAnswer ==
    /\ turn = "adapter" /\ xfer.kind = "next" /\ adPc = "loop" /\ pending > 0
    /\ adapter \in GeminiAdapters
    /\ pending' = pending - 1
    /\ \E text \in PartTexts, thought \in BOOLEAN :
          /\ part' = [text |-> text, thought |-> thought]
          /\ IF ~HasText(text)
             THEN UNCHANGED <<ctl, full_response, full_thoughts, adapterOut, nTextParts>>
             ELSE /\ AdapterYield(PartChunk(adapter, text, thought))
                  /\ nTextParts' = nTextParts + 1
                  /\ full_response' = full_response \o text
                  /\ full_thoughts' =
                        IF PartChunk(adapter, text, thought).type = "thought"
                        THEN full_thoughts \o text ELSE full_thoughts
    /\ UNCHANGED <<reqVars, sessVars, constructed, inputs, conPc, encVars, aggVars, adPc, final_response,
                   final_result, agent_usage, task, waiting, nFetched, nParts, histVars>>

\* GeminiPart that skips only a part whose text is None: an empty text is
\* yielded as a chunk
GeminiPart_ForwardsEmpty ==
    /\ turn = "adapter" /\ xfer.kind = "next" /\ adPc = "loop" /\ pending > 0
    /\ adapter \in GeminiAdapters
    /\ pending' = pending - 1
    /\ \E text \in PartTexts, thought \in BOOLEAN :
          /\ part' = [text |-> text, thought |-> thought]
          /\ IF text = NoneText
             THEN UNCHANGED <<ctl, full_response, full_thoughts, adapterOut, nTextParts>>
             ELSE /\ AdapterYield(PartChunk(adapter, text, thought))
                  /\ nTextParts' = IF HasText(text) THEN nTextParts + 1 ELSE nTextParts
                  /\ full_response' =
                        IF PartChunk(adapter, text, thought).type = "content"
                        THEN full_response \o text ELSE full_response
                  /\ full_thoughts' =
                        IF PartChunk(adapter, text, thought).type = "thought"
                        THEN full_thoughts \o text ELSE full_thoughts
    /\ UNCHANGED <<reqVars, sessVars, constructed, inputs, conPc, encVars, aggVars, adPc, final_response,
                   final_result, agent_usage, task, waiting, nFetched, nParts, histVars>>

\* the loop over the parts of the current response object: a part without
\* text is skipped, a part with text is accumulated and yielded
GeminiPart ==
    /\ turn = "adapter" /\ xfer.kind = "next" /\ adPc = "loop" /\ pending > 0
    /\ adapter \in GeminiAdapters
    /\ pending' = pending - 1
    /\ \E text \in PartTexts, thought \in BOOLEAN :
          /\ part' = [text |-> text, thought |-> thought]
          /\ IF ~HasText(text)
             THEN UNCHANGED <<ctl, full_response, full_thoughts, adapterOut, nTextParts>>
             ELSE /\ AdapterYield(PartChunk(adapter, text, thought))
                  /\ nTextParts' = nTextParts + 1
                  /\ full_response' =
                        IF PartChunk(adapter, text, thought).type = "content"
                        THEN full_response \o text ELSE full_response
                  /\ full_thoughts' =
                        IF PartChunk(adapter, text, thought).type = "thought"
                        THEN full_thoughts \o text ELSE full_thoughts
    /\ UNCHANGED <<reqVars, sessVars, constructed, inputs, conPc, encVars, aggVars, adPc, final_response,
                   final_result, agent_usage, task, waiting, nFetched, nParts, histVars>>

\* the terminal chunk of a Gemini adapter, or the fact that computing it raised
GeminiUsage(a, response, message, full, thoughts) ==
    IF a = "thinking"
    THEN ExtractThinkingTokenUsage(response, message, full, thoughts)
    ELSE ExtractTokenUsage(response, message, full)

\* after the loop: add_ai_message(full_response) (its file write can fail),
\* extract the usage from what the last response object carries as
\* usage_metadata, and yield the tokens chunk
GeminiFinish ==
    /\ turn = "adapter" /\ xfer.kind = "next" /\ adPc = "after"
    /\ adapter \in GeminiAdapters
    /\ \/ /\ AdapterRaise("memory")
          /\ UNCHANGED <<adPc, history, final_response, adapterOut>>
       \/ /\ history' = Append(history, [role |-> "ai", text |-> full_response])
          /\ \E kind \in (IF final_response = "none" THEN {"none"} ELSE UsageKinds) :
                /\ final_response' = kind
                /\ LET u == GeminiUsage(adapter, kind, question,
                                        full_response, full_thoughts)
                   IN IF u.raised
                      THEN AdapterRaise("usage") /\ UNCHANGED <<adPc, adapterOut>>
                      ELSE /\ AdapterYield(IF adapter = "thinking"
                                           THEN ThinkingTokensChunk(u.tokens, u.thoughts)
                                           ELSE TokensChunk(u.tokens))
                           /\ adPc' = "tokens"
    /\ UNCHANGED <<reqVars, sessVars, nTextParts, constructed, inputs, conPc, encVars, aggVars,
                   full_response, full_thoughts, final_result, agent_usage, task, waiting,
                   part, pending, nFetched, nParts, contents>>

(* ------------------- Agent.ask_with_streaming_chunks ------------------- *)

\* callback = AsyncIteratorCallbackHandler(); task = asyncio.create_task(arun)
OpenAIStart ==
    /\ turn = "adapter" /\ xfer.kind = "next" /\ adPc = "start"
    /\ adapter = "openai"
    /\ adPc' = "loop"
    /\ task' = "running"
    /\ UNCHANGED <<reqVars, sessVars, nTextParts, constructed, inputs, ctl, conPc, encVars, aggVars, full_response, full_thoughts,
                   final_response, final_result, agent_usage, waiting, part, pending, nFetched, nParts,
                   adapterOut, histVars>>

\* async for token in callback.aiter(): a token is accumulated and yielded,
\* or the iterator is exhausted
OpenAIToken ==
    /\ turn = "adapter" /\ xfer.kind = "next" /\ adPc = "loop"
    /\ adapter = "openai"
    /\ \/ /\ nParts < MaxParts
          /\ \E token \in AgentTokens :
                /\ full_response' = full_response \o token
                /\ AdapterYield(ContentChunk(token))
          /\ nParts' = nParts + 1
          /\ UNCHANGED adPc
       \/ /\ adPc' = "await"
          /\ UNCHANGED <<ctl, full_response, nParts, adapterOut>>
    /\ UNCHANGED <<reqVars, sessVars, nTextParts, constructed, inputs, conPc, encVars, aggVars, full_thoughts, final_response,
                   final_result, agent_usage, task, waiting, part, pending, nFetched, histVars>>

\* token_tracker.calculate_tokens(question, full_response) and the tokens chunk
OpenAIEmitTokens ==
    LET u == CalculateTokens(question, full_response)
    IN IF u.raised
       THEN AdapterRaise("usage") /\ UNCHANGED <<adPc, adapterOut>>
       ELSE AdapterYield(TokensChunk(u.tokens)) /\ adPc' = "tokens"

\* FinalChunks that drops a final value that does not validate
FinalChunks_ValidatedOnly(final, full) ==
    IF final # full
    THEN IF StartsWithSteps(final)
         THEN IF ValidAgentFlow(final)
              THEN <<ContentChunk(final)>>
              ELSE <<>>
         ELSE <<ContentChunk(final)>>
    ELSE <<>>

\* if final_result != full_response: the chunks yielded for the final value,
\* in the branch for a validated AgentFlow, in the handler of a failed
\* validation and in the branch for any other value
FinalChunks(final, full) ==
    IF final # full
    THEN IF StartsWithSteps(final)
         THEN IF ValidAgentFlow(final)
              THEN <<ContentChunk(final)>>
              ELSE <<ContentChunk(final)>>
         ELSE <<ContentChunk(final)>>
    ELSE <<>>

\* final_result = await task, which raises what the run raised; a result that
\* differs from the streamed text is yielded as one more content chunk
OpenAIAwait ==
    /\ turn = "adapter" /\ xfer.kind = "next" /\ adPc = "await"
    /\ adapter = "openai"
    /\ task' = "done"
    /\ \/ /\ AdapterRaise("agent")
          /\ UNCHANGED <<adPc, final_result, agent_usage, adapterOut>>
       \/ \E r \in {full_response} \cup ToolResults, reported \in AgentUsages :
             /\ final_result' = r
             /\ agent_usage' = reported
             /\ IF FinalChunks(r, full_response) # <<>>
                THEN /\ AdapterYield(FinalChunks(r, full_response)[1])
                     /\ adPc' = "final"
                ELSE OpenAIEmitTokens
    /\ UNCHANGED <<reqVars, sessVars, nTextParts, constructed, inputs, conPc, encVars, aggVars, full_response, full_thoughts,
                   final_response, part, waiting, pending, nFetched, nParts, histVars>>

\* resumed after the extra content chunk: compute and yield the tokens chunk
OpenAITokens ==
    /\ turn = "adapter" /\ xfer.kind = "next" /\ adPc = "final"
    /\ adapter = "openai"
    /\ OpenAIEmitTokens
    /\ UNCHANGED <<reqVars, sessVars, nTextParts, constructed, inputs, conPc, encVars, aggVars, full_response, full_thoughts,
                   final_response, final_result, agent_usage, task, waiting, part, pending, nFetched, nParts, histVars>>

(* ------------------------- Agent.ask (legacy) -------------------------- *)

\* a value Agent.ask yields: a str, or an AgentFlow parsed from a str
Yielded(kind, text) == [kind |-> kind, text |-> text]

\* what Agent.ask yields after ret = await task: nothing when ret is the
\* streamed text; otherwise, when ret starts with the steps marker, the parsed
\* AgentFlow or (in the handler of a failed validation) ret, and then, in
\* every case, ret
AskFinalYields(ret, resp) ==
    IF ret # resp
    THEN (IF StartsWithSteps(ret)
          THEN IF ValidAgentFlow(ret)
               THEN <<Yielded("AgentFlow", ret)>>
               ELSE <<Yielded("str", ret)>>
          ELSE <<>>)
         \o <<Yielded("str", ret)>>
    ELSE <<>>

\* callback = AsyncIteratorCallbackHandler(); task = asyncio.create_task(arun);
\* resp = ""
AskStart ==
    /\ turn = "adapter" /\ adPc = "start"
    /\ adapter = "ask"
    /\ adPc' = "loop"
    /\ task' = "running"
    /\ full_response' = <<>>
    /\ UNCHANGED <<reqVars, sessVars, nTextParts, constructed, inputs, ctl, conPc, encVars,
                   aggVars, full_thoughts, final_response, final_result, agent_usage,
                   waiting, part, pending, nFetched, nParts, adapterOut, histVars>>

\* async for token in callback.aiter(): resp += token; yield token, or the
\* iterator is exhausted and the generator waits for the task
AskToken ==
    /\ turn = "adapter" /\ adPc = "loop"
    /\ adapter = "ask"
    /\ \/ /\ nParts < MaxParts
          /\ \E token \in AgentTokens :
                /\ full_response' = full_response \o token
                /\ adapterOut' = Append(adapterOut, Yielded("str", token))
          /\ nParts' = nParts + 1
          /\ UNCHANGED adPc
       \/ /\ adPc' = "await"
          /\ UNCHANGED <<full_response, nParts, adapterOut>>
    /\ UNCHANGED <<reqVars, sessVars, nTextParts, constructed, inputs, ctl, conPc, encVars,
                   aggVars, full_thoughts, final_response, final_result, agent_usage,
                   task, waiting, part, pending, nFetched, histVars>>

\* ret = await task: the exception of the run leaves the generator (there is
\* no handler), or the first of the values for ret is yielded, or the
\* generator returns
AskAwait ==
    /\ turn = "adapter" /\ adPc = "await"
    /\ adapter = "ask"
    /\ task' = "done"
    /\ \/ /\ adPc' = "raised"
          /\ UNCHANGED <<final_result, pending, adapterOut>>
       \/ \E ret \in {full_response} \cup ToolResults :
             LET ys == AskFinalYields(ret, full_response)
             IN /\ final_result' = ret
                /\ IF ys = <<>>
                   THEN /\ adPc' = "done"
                        /\ UNCHANGED <<pending, adapterOut>>
                   ELSE /\ adapterOut' = Append(adapterOut, ys[1])
                        /\ pending' = Len(ys) - 1
                        /\ adPc' = "final"
    /\ UNCHANGED <<reqVars, sessVars, nTextParts, constructed, inputs, ctl, conPc, encVars,
                   aggVars, full_response, full_thoughts, final_response, agent_usage,
                   waiting, part, nFetched, nParts, histVars>>

\* resumed after a yield that followed await task: the next yield, or the
\* end of the function
AskFinal ==
    /\ turn = "adapter" /\ adPc = "final"
    /\ adapter = "ask"
    /\ LET ys == AskFinalYields(final_result, full_response)
       IN IF pending = 0
          THEN /\ adPc' = "done"
               /\ UNCHANGED <<pending, adapterOut>>
          ELSE /\ adapterOut' = Append(adapterOut, ys[Len(ys) - pending + 1])
               /\ pending' = pending - 1
               /\ UNCHANGED adPc
    /\ UNCHANGED <<reqVars, sessVars, nTextParts, constructed, inputs, ctl, conPc, encVars,
                   aggVars, full_response, full_thoughts, final_response, final_result,
                   agent_usage, task, waiting, part, nFetched, nParts, histVars>>

(* --------------------- scripted chunk generator ------------------------ *)

\* the chunks a test generator yields
ScriptChunks ==
    {ContentChunk(<<"a">>), ContentChunk(<<" ", "b">>), ThoughtChunk(<<"t">>),
     TokensChunk(10), ErrorChunk("upstream")}

\* a test generator: yields a chunk, returns, or raises
ScriptStep ==
    /\ turn = "adapter" /\ xfer.kind = "next" /\ adPc \in {"start", "loop"}
    /\ adapter = "script"
    /\ \/ /\ nParts < MaxParts
          /\ \E c \in ScriptChunks : AdapterYield(c)
          /\ nParts' = nParts + 1
          /\ adPc' = "loop"
       \/ /\ adPc' = "done"
          /\ turn' = Up /\ xfer' = StopMsg
          /\ UNCHANGED <<nParts, adapterOut>>
       \/ /\ adPc' = "raised"
          /\ turn' = Up /\ xfer' = RaiseMsg("source")
          /\ UNCHANGED <<nParts, adapterOut>>
    /\ UNCHANGED <<reqVars, sessVars, nTextParts, constructed, inputs, conPc, encVars, aggVars, full_response, full_thoughts,
                   final_response, final_result, agent_usage, task, waiting, part, pending, nFetched, histVars>>

(* --------------------------- cancellation ------------------------------ *)

\* the request's task is suspended at an await: in the transport (between two
\* frames, every generator at a yield or not started), or inside the adapter
\* at callback.aiter(), at await task or at await asyncio.to_thread(...)
Suspended ==
    \/ turn = "consumer"
    \/ /\ turn = "adapter" /\ xfer.kind = "next"
       /\ \/ adapter = "openai" /\ adPc \in {"loop", "await"}
          \/ adapter \in GeminiAdapters /\ adPc = "call"

\* a generator after GeneratorExit or CancelledError went through it: one
\* that never started or already returned is left as it is
Unwound(pc) == IF pc \in {"start", "done"} THEN pc ELSE "cancelled"

\* Disconnect where the aggregator's handler catches the cancellation as it
\* catches an Exception
Disconnect_AggregatorCatches ==
    /\ conPc = "reading" /\ Suspended
    /\ conPc' = "closed"
    /\ turn' = "none" /\ xfer' = StopMsg
    /\ encPc' = Unwound(encPc) /\ aggPc' = Unwound(aggPc) /\ adPc' = Unwound(adPc)
    /\ IF Unwound(aggPc) = "cancelled"
       THEN /\ aggOut' = Append(aggOut, ErrorChunk("cancelled"))
            /\ aggErr' = TRUE
       ELSE UNCHANGED <<aggOut, aggErr>>
    /\ task' = IF task = "running" /\ turn = "adapter" /\ adPc = "await"
               THEN "cancelled" ELSE task
    /\ waiting' = "none"
    /\ UNCHANGED <<reqVars, sessVars, nTextParts, constructed, inputs, wire, encFail, complete_answer,
                   saveCalls, full_response, full_thoughts, final_response,
                   final_result, agent_usage, part, pending, nFetched, nParts,
                   adapterOut, histVars>>

\* the client disconnects mid-stream: the request's task is cancelled at the
\* await it is suspended at.  CancelledError and GeneratorExit are not
\* Exceptions, so no handler of the chain catches them and every generator
\* is unwound.  The agent run is a task of its own: it is cancelled only when
\* the cancellation arrives at await task.
Disconnect ==
    /\ conPc = "reading" /\ Suspended
    /\ conPc' = "closed"
    /\ turn' = "none" /\ xfer' = StopMsg
    /\ encPc' = Unwound(encPc) /\ aggPc' = Unwound(aggPc) /\ adPc' = Unwound(adPc)
    /\ task' = IF task = "running" /\ turn = "adapter" /\ adPc = "await"
               THEN "cancelled" ELSE task
    /\ waiting' = "none"
    /\ UNCHANGED <<reqVars, sessVars, nTextParts, constructed, inputs, wire, encFail, complete_answer,
                   aggOut, saveCalls, aggErr, full_response, full_thoughts,
                   final_response, final_result, agent_usage, part, pending,
                   nFetched, nParts, adapterOut, histVars>>

\* the agent run started with create_task goes on after the generator that
\* started it was unwound, until it ends by itself
AgentRunOn ==
    /\ conPc = "closed" /\ task = "running"
    /\ task' = "done"
    /\ UNCHANGED <<reqVars, sessVars, nTextParts, constructed, inputs, ctl, conPc, encVars, aggVars, adPc,
                   full_response, full_thoughts, final_response, final_result,
                   agent_usage, part, waiting, pending, nFetched, nParts, adapterOut,
                   histVars>>

(* --------------------------- create_session --------------------------- *)

\* a is somewhere inside b
Contains(b, a) ==
    \E i \in 0..(Len(b) - Len(a)) : SubSeq(b, i + 1, i + Len(a)) = a

\* start_session that names the last locale of the session
StartSessionMessage_LastLocale(session) ==
    [role |-> "user",
     text |-> <<"this is my locale: ">> \o session.locales[Len(session.locales)]]

\* GeminiService.start_session:
\* add_user_message("this is my locale: " + self._session.locales[0])
StartSessionMessage(session) ==
    [role |-> "user", text |-> <<"this is my locale: ">> \o session.locales[1]]

\* ids of sessions that were made already: uuid4 does not repeat
UsedIds == {created[c].ret.id : c \in Creates}

\* ret = Session(**req.model_dump(), user=user) and the call of
\* sessions_repo.save_session(ret), at which the handler is suspended
create_session(c) ==
    /\ created[c].pc = "idle"
    /\ \E user \in Users, locales \in LocaleLists, id \in SessionIds \ UsedIds :
          /\ created' = [created EXCEPT ![c] =
                            [pc |-> "saving", user |-> user, locales |-> locales,
                             ret |-> MkSession(id, user, locales)]]
          /\ session_saves' = Append(session_saves, MkSession(id, user, locales))
    /\ UNCHANGED <<pipeVars, chat_history, exch>>

\* resumed after save_session: it raised, or GeminiService(ret) raises, or
\* start_session raises (locales[0] of an empty list, or the file write), or
\* start_session adds the locale message and the handler returns ret (201)
start_session(c) ==
    /\ created[c].pc = "saving"
    /\ \/ /\ created' = [created EXCEPT ![c].pc = "failed"]
          /\ UNCHANGED chat_history
       \/ /\ created[c].ret.locales # <<>>
          /\ chat_history' =
                [chat_history EXCEPT ![HistoryFile(created[c].ret.id)] =
                    Append(@, StartSessionMessage(created[c].ret))]
          /\ created' = [created EXCEPT ![c].pc = "returned"]
    /\ UNCHANGED <<pipeVars, session_saves, exch>>

(* ---------------------- exchanges side by side ------------------------- *)

\* an exchange that has not begun
NoExchange ==
    [pc |-> "idle", session |-> NoSession, adapter |-> "none", question |-> <<>>,
     conversation_history |-> <<>>, full_response |-> <<>>,
     complete_answer |-> <<>>, n |-> 0, task |-> "none", error |-> NoneStr,
     saved |-> <<>>, mine |-> <<>>]

\* the history file the service or agent of exchange e is bound to
FileOf(e) == HistoryFile(exch[e].session.id)

\* contents = self._build_gemini_contents(conversation_history)
ContentsOf(e) == BuildGeminiContents(exch[e].conversation_history)

\* Question(question=request.question, answer=complete_answer, session=session)
QuestionOf(e) ==
    [question |-> exch[e].question, answer |-> exch[e].complete_answer,
     session |-> exch[e].session]

\* the file a service writes when every service is bound to one file
BoundFile_Shared(session) == HistoryFile("A")

\* FileChatMessageHistory(get_session_path(session.id) + "/chat_history.json")
BoundFile(session) == HistoryFile(session.id)

\* chat_memory.add_user_message / add_ai_message: the messages are added to
\* what the file holds now
Appended(session, msgs) ==
    [chat_history EXCEPT ![BoundFile(session)] = @ \o msgs]

\* the places in the file the added messages get
Places(session, msgs) ==
    [i \in 1..Len(msgs) |-> Len(chat_history[BoundFile(session)]) + i]

\* the route handler found the session and the transport started the stream:
\* the service or agent is constructed (which may raise) and the adapter runs
\* to its first suspension.  A Gemini adapter adds the question to the history
\* (which may raise), reads the history and waits for the upstream call; the
\* agent adapter starts the run
ExchangeBegin(e) ==
    /\ exch[e].pc = "idle"
    /\ \E c \in SessionsOf(e), a \in Adapters :
          LET session == StoredSessions[c]
              q == AskedQuestion(e)
              begun == [exch[e] EXCEPT !.session = session, !.adapter = a,
                                       !.question = q]
          IN \/ /\ exch' = [exch EXCEPT ![e] =
                              [begun EXCEPT !.pc = "failed", !.error = "construct"]]
                /\ UNCHANGED chat_history
             \/ /\ a \in GeminiAdapters
                /\ exch' = [exch EXCEPT ![e] =
                              [begun EXCEPT !.pc = "err", !.error = "history"]]
                /\ UNCHANGED chat_history
             \/ /\ a \in GeminiAdapters
                /\ LET msgs == <<[role |-> "user", text |-> q]>>
                   IN /\ chat_history' = Appended(session, msgs)
                      /\ exch' = [exch EXCEPT ![e] =
                                    [begun EXCEPT
                                        !.pc = "call",
                                        !.conversation_history =
                                            Appended(session, msgs)[BoundFile(session)],
                                        !.mine = Places(session, msgs)]]
             \/ /\ a = "openai"
                /\ exch' = [exch EXCEPT ![e] =
                              [begun EXCEPT !.pc = "loop", !.task = "running"]]
                /\ UNCHANGED chat_history
    /\ UNCHANGED <<pipeVars, created, session_saves>>

\* a fragment with answer text (a streamed token of the agent) is added to
\* full_response, yielded and added to complete_answer by the aggregator
ExchangeFragment(e) ==
    /\ exch[e].pc \in {"call", "loop"}
    /\ exch[e].n < MaxFetch
    /\ \E text \in FragmentTexts :
          exch' = [exch EXCEPT ![e].pc = "loop",
                               ![e].n = @ + 1,
                               ![e].full_response = @ \o text,
                               ![e].complete_answer = @ \o text]
    /\ UNCHANGED <<pipeVars, created, session_saves, chat_history>>

\* ExchangeFails that takes the question back out of the history
ExchangeFails_RollsBack(e) ==
    /\ exch[e].pc \in {"call", "loop"}
    /\ exch[e].adapter \in GeminiAdapters
    /\ LET f == BoundFile(exch[e].session)
           h == chat_history[f]
           i == exch[e].mine[1]
       IN chat_history' = [chat_history EXCEPT ![f] =
                              SubSeq(h, 1, i - 1) \o SubSeq(h, i + 1, Len(h))]
    /\ exch' = [exch EXCEPT ![e].pc = "err", ![e].error = "upstream"]
    /\ UNCHANGED <<pipeVars, created, session_saves>>

\* the upstream call or the iteration of the fragments raises in a Gemini
\* adapter: its handler yields the error chunk
ExchangeFails(e) ==
    /\ exch[e].pc \in {"call", "loop"}
    /\ exch[e].adapter \in GeminiAdapters
    /\ exch' = [exch EXCEPT ![e].pc = "err", ![e].error = "upstream"]
    /\ UNCHANGED <<pipeVars, created, session_saves, chat_history>>

\* ExchangeFinish that writes the history it read at its start, with the
\* answer added, back to the file
ExchangeFinish_WritesSnapshot(e) ==
    /\ exch[e].pc \in {"call", "loop"}
    /\ exch[e].adapter \in GeminiAdapters
    /\ LET f == BoundFile(exch[e].session)
           h == Append(exch[e].conversation_history,
                       [role |-> "ai", text |-> exch[e].full_response])
       IN /\ chat_history' = [chat_history EXCEPT ![f] = h]
          /\ exch' = [exch EXCEPT ![e].mine = Append(@, Len(h)),
                                  ![e].pc = "tokens"]
    /\ UNCHANGED <<pipeVars, created, session_saves>>

\* the fragments are exhausted: add_ai_message(full_response), which may
\* raise, and then the tokens chunk
ExchangeFinish(e) ==
    /\ exch[e].pc \in {"call", "loop"}
    /\ exch[e].adapter \in GeminiAdapters
    /\ \/ /\ exch' = [exch EXCEPT ![e].pc = "err", ![e].error = "memory"]
          /\ UNCHANGED chat_history
       \/ LET msgs == <<[role |-> "ai", text |-> exch[e].full_response]>>
          IN /\ chat_history' = Appended(exch[e].session, msgs)
             /\ exch' = [exch EXCEPT ![e].mine = @ \o Places(exch[e].session, msgs),
                                     ![e].pc = "tokens"]
    /\ UNCHANGED <<pipeVars, created, session_saves>>

\* the memory of the AgentExecutor saves the exchange when the run ends:
\* the question and the run's output
AgentContext(e) ==
    <<[role |-> "user", text |-> exch[e].question],
      [role |-> "ai", text |-> exch[e].full_response]>>

\* final_result = await task in the agent adapter: the run raised, or it
\* ended, its memory saved the exchange, and the tokens chunk is yielded
ExchangeAgentDone(e) ==
    /\ exch[e].pc = "loop"
    /\ exch[e].adapter = "openai"
    /\ \/ /\ exch' = [exch EXCEPT ![e].pc = "err", ![e].error = "agent",
                                  ![e].task = "done"]
          /\ UNCHANGED chat_history
       \/ /\ chat_history' = Appended(exch[e].session, AgentContext(e))
          /\ exch' = [exch EXCEPT
                         ![e].mine = @ \o Places(exch[e].session, AgentContext(e)),
                         ![e].pc = "tokens", ![e].task = "done"]
    /\ UNCHANGED <<pipeVars, created, session_saves>>

\* the adapter was resumed after its last chunk and returned: the aggregator
\* builds the Question and awaits save_question, which may raise
ExchangeSave(e) ==
    /\ exch[e].pc \in {"tokens", "err"}
    /\ \E outcome \in {"done", "failed"} :
          exch' = [exch EXCEPT ![e].saved = Append(@, QuestionOf(e)),
                               ![e].pc = outcome,
                               ![e].error = IF outcome = "failed" THEN "save" ELSE @]
    /\ UNCHANGED <<pipeVars, created, session_saves, chat_history>>

\* the client of exchange e disconnects while the exchange is suspended: its
\* generators are unwound; an agent run that was started goes on
ExchangeCancel(e) ==
    /\ exch[e].pc \in {"call", "loop", "tokens", "err"}
    /\ exch' = [exch EXCEPT ![e].pc = "cancelled"]
    /\ UNCHANGED <<pipeVars, created, session_saves, chat_history>>

\* the agent run of a cancelled exchange ends by itself: it raises, or its
\* memory saves the exchange
ExchangeAgentRunOn(e) ==
    /\ exch[e].pc = "cancelled"
    /\ exch[e].task = "running"
    /\ \/ /\ exch' = [exch EXCEPT ![e].task = "done"]
          /\ UNCHANGED chat_history
       \/ /\ chat_history' = Appended(exch[e].session, AgentContext(e))
          /\ exch' = [exch EXCEPT
                         ![e].mine = @ \o Places(exch[e].session, AgentContext(e)),
                         ![e].task = "done"]
    /\ UNCHANGED <<pipeVars, created, session_saves>>

(* -------------------------- specifications ----------------------------- *)

Next ==
    \/ answer_question \/ chat \/ chat_thinking
    \/ ConsumerPull
    \/ EncoderPull \/ EncoderOnChunk \/ EncoderOnStop \/ EncoderExcept
    \/ EncoderReturn
    \/ AggStart \/ AggPull \/ AggOnChunk \/ AggOnStop \/ AggExcept \/ AggReturn
    \/ AdapterExcept \/ AdapterReturn
    \/ GeminiStart \/ GeminiCalled \/ GeminiNext \/ GeminiFetch \/ GeminiPart
    \/ GeminiFinish
    \/ OpenAIStart \/ OpenAIToken \/ OpenAIAwait \/ OpenAITokens

Spec == Init /\ [][Next]_vars

\* the question routes with a client that may disconnect
NextCancel == Next \/ Disconnect \/ AgentRunOn

SpecCancel == Init /\ [][NextCancel]_vars

NextHarness ==
    \/ ConsumerPull
    \/ EncoderPull \/ EncoderOnChunk \/ EncoderOnStop \/ EncoderExcept
    \/ EncoderReturn
    \/ AggStart \/ AggPull \/ AggOnChunk \/ AggOnStop \/ AggExcept \/ AggReturn
    \/ ScriptStep

SpecHarness == InitHarness /\ [][NextHarness]_vars

\* no request to a question route
NoRequest ==
    /\ route = "none" /\ lookup = "absent"
    /\ adapter = "none" /\ encSource = "aggregator"
    /\ question = <<>>
    /\ turn = "none" /\ conPc = "idle"
    /\ InitLayers

\* create_session calls on a store without sessions
InitCreate ==
    /\ NoRequest
    /\ created = [c \in Creates |->
                    [pc |-> "idle", user |-> NoneStr, locales |-> <<>>, ret |-> NoSession]]
    /\ session_saves = <<>>
    /\ chat_history = [f \in HistoryFiles |-> <<>>]
    /\ exch = <<>>

NextCreate == \E c \in Creates : create_session(c) \/ start_session(c)

SpecCreate == InitCreate /\ [][NextCreate]_vars

\* two stored sessions, each with the locale message of its start_session,
\* and no exchange begun
InitSessions ==
    /\ NoRequest
    /\ created = [c \in Creates |->
                    [pc |-> "returned", user |-> StoredSessions[c].user,
                     locales |-> StoredSessions[c].locales, ret |-> StoredSessions[c]]]
    /\ session_saves = StoredSessions
    /\ chat_history =
          [f \in HistoryFiles |->
              IF f = HistoryFile("A")
              THEN <<StartSessionMessage(StoredSessions[1])>>
              ELSE <<StartSessionMessage(StoredSessions[2])>>]
    /\ exch = [e \in Exchanges |-> NoExchange]

NextSessions ==
    \E e \in Exchanges :
        \/ ExchangeBegin(e) \/ ExchangeFragment(e) \/ ExchangeFails(e)
        \/ ExchangeFinish(e) \/ ExchangeAgentDone(e) \/ ExchangeSave(e)
        \/ ExchangeCancel(e) \/ ExchangeAgentRunOn(e)

SpecSessions == InitSessions /\ [][NextSessions]_vars

NextAsk == AskStart \/ AskToken \/ AskAwait \/ AskFinal

SpecAsk == InitAsk /\ [][NextAsk]_vars

(* ------------------------ derived sequences ---------------------------- *)

FrameSeq(chunks) == [i \in 1..Len(chunks) |-> Frame(chunks[i])]

\* the kinds of the frames on the wire
WireKinds == [i \in 1..Len(wire) |-> wire[i].json.type]

CountKind(kinds, k) == Cardinality({i \in 1..Len(kinds) : kinds[i] = k})

ChunkKinds(chunks) == [i \in 1..Len(chunks) |-> chunks[i].type]

RECURSIVE ConcatContent(_)
\* the concatenation of the text of the content-kind chunks, in order
ConcatContent(chunks) ==
    IF chunks = <<>> THEN <<>>
    ELSE (IF Head(chunks).type = "content" THEN Head(chunks).content ELSE <<>>)
         \o ConcatContent(Tail(chunks))

\* a is the beginning of b and b is at most lag longer
PrefixWithin(a, b, lag) ==
    /\ Len(a) <= Len(b)
    /\ Len(b) - Len(a) <= lag
    /\ SubSeq(b, 1, Len(a)) = a

\* the trailing frame the encoder made itself (its end or error frame)
EncoderOwn == IF encPc \in {"end", "err", "done"} THEN 1 ELSE 0

\* the trailing chunk the aggregator made itself (its error chunk)
AggOwn == IF aggErr THEN 1 ELSE 0

\* the chunks the aggregator forwarded from the wrapped sequence
Forwarded == SubSeq(aggOut, 1, Len(aggOut) - AggOwn)

\* the frames that encode chunks the encoder received
WirePayload == SubSeq(wire, 1, Len(wire) - EncoderOwn)

(* ------------------------------ claims --------------------------------- *)

\* C1 (as stated): when the transport has read the stream to its end, the
\* frames end with exactly one terminal: a tokens frame immediately followed
\* by the end frame and no error frame, or an error frame as the last frame
\* and no end frame.
C1_OneTerminal ==
    conPc = "done" =>
        LET n == Len(wire)
        IN \/ /\ n >= 2
              /\ WireKinds[n] = "end" /\ WireKinds[n - 1] = "tokens"
              /\ CountKind(WireKinds, "error") = 0
              /\ CountKind(WireKinds, "end") = 1
           \/ /\ n >= 1
              /\ WireKinds[n] = "error"
              /\ CountKind(WireKinds, "error") = 1
              /\ CountKind(WireKinds, "end") = 0

\* C2 (as stated): a response stream never holds more than one error frame,
\* and never holds both a tokens frame and an error frame.
C2_AtMostOneError ==
    /\ CountKind(WireKinds, "error") <= 1
    /\ ~ (CountKind(WireKinds, "tokens") > 0 /\ CountKind(WireKinds, "error") > 0)

\* C3: the answer of every Question handed to save_question is the
\* concatenation, in order, of the text of the content chunks the aggregator
\* forwarded.
C3_AnswerIsForwardedContent ==
    \A i \in 1..Len(saveCalls) :
        saveCalls[i].answer = ConcatContent(Forwarded)

C3_Witness ==
    /\ Len(saveCalls) = 1
    /\ CountKind(ChunkKinds(aggOut), "content") >= 2
    /\ CountKind(ChunkKinds(aggOut), "thought") >= 1
    /\ CountKind(ChunkKinds(aggOut), "tokens") = 1
    /\ Len(saveCalls[1].answer) >= 2

\* the upstream call raised before it produced any fragment: the adapter's
\* first chunk reports the failure of the upstream call (Gemini) or of the
\* agent run (tool-augmented) and nothing was received before
UpstreamFailedFirst ==
    /\ adapterOut # <<>>
    /\ \/ adapter \in GeminiAdapters /\ adapterOut[1] = ErrorChunk("upstream")
                                     /\ nFetched = 0
       \/ adapter = "openai" /\ adapterOut[1] = ErrorChunk("agent") /\ nParts = 0

\* C4 (as stated): if the upstream call raises before producing any fragment,
\* the aggregator delivers exactly one error chunk and save_question is never
\* called.
C4_NoSaveOnUpstreamFailure ==
    UpstreamFailedFirst =>
        /\ saveCalls = <<>>
        /\ aggPc = "done" => Len(aggOut) = 1 /\ aggOut[1].type = "error"

\* C4 (amended): if the upstream call raises before producing any fragment,
\* the adapter's sequence is exactly one error chunk and the aggregator
\* delivers it first; the error being in-band, the aggregator then runs its
\* persistence step: save_question is called once with an empty answer unless
\* building the Question fails, and a second error chunk is delivered exactly
\* when the persistence step raises.
C4_SaveAfterInBandUpstreamFailure ==
    UpstreamFailedFirst =>
        /\ Len(adapterOut) = 1
        /\ \A i \in 1..Len(saveCalls) : saveCalls[i].answer = <<>>
        /\ Len(saveCalls) <= 1
        /\ aggPc = "done" =>
              /\ aggOut[1] = adapterOut[1]
              /\ Len(aggOut) = 1 + AggOwn
              /\ \A i \in 1..Len(aggOut) : aggOut[i].type = "error"
              /\ question # NoneText => Len(saveCalls) = 1
              /\ question = NoneText => saveCalls = <<>> /\ aggErr

C4_Witness ==
    /\ UpstreamFailedFirst
    /\ aggPc = "done"
    /\ aggOut = <<ErrorChunk("upstream")>>
    /\ saveCalls = <<MkQuestion(question, <<>>)>>

\* the chunks of an adapter sequence that are tokens or error chunks
Terminals(chunks) == {i \in 1..Len(chunks) : chunks[i].type \in {"tokens", "error"}}

\* C5: an adapter sequence holds at most one tokens-or-error chunk and nothing
\* after it, and a sequence that was consumed to exhaustion ends with one.
C5_AdapterEndsWithOneTerminal ==
    /\ Terminals(adapterOut) \subseteq {Len(adapterOut)}
    /\ adPc = "done" => Terminals(adapterOut) = {Len(adapterOut)} /\ adapterOut # <<>>

C5_Witness ==
    /\ adPc = "done"
    /\ Len(adapterOut) >= 3
    /\ adapterOut[Len(adapterOut)].type = "error"

\* C6 (as stated): when the stream has been read to its end, the frames before
\* the terminal frame (the encoder's own end or error frame, and the
\* aggregator's own error chunk if it made one) are the encodings of the
\* chunks the adapter produced, one for one and in order.
C6_WireIsAdapterOutput ==
    conPc = "done" =>
        SubSeq(wire, 1, Len(wire) - EncoderOwn - AggOwn) = FrameSeq(adapterOut)

\* C6 (amended): the aggregator forwards the adapter's chunks unchanged, in
\* order, none dropped, duplicated or held back (at most the chunk in flight
\* is missing), and the frames the encoder writes are the encodings of the
\* aggregator's chunks, in order; when the stream has been read to its end
\* every adapter chunk has its frame, except a chunk whose serialization
\* failed, which has none (the encoder's error frame stands in its place).
C6_TransparentTap ==
    /\ PrefixWithin(Forwarded, adapterOut, 1)
    /\ PrefixWithin(WirePayload, FrameSeq(aggOut), 1)
    /\ conPc = "done" =>
          /\ Forwarded = adapterOut
          /\ Len(WirePayload) = Len(aggOut) - (IF encFail = "encode" THEN 1 ELSE 0)

C6_Witness ==
    /\ conPc = "done"
    /\ encFail = "none"
    /\ ~ aggErr
    /\ CountKind(ChunkKinds(adapterOut), "thought") >= 1
    /\ CountKind(ChunkKinds(adapterOut), "content") >= 1
    /\ CountKind(ChunkKinds(adapterOut), "tokens") = 1
    /\ Len(wire) = Len(adapterOut) + 1

\* the chunks the encoder's source has yielded
SourceOut == IF encSource = "adapter" THEN adapterOut ELSE aggOut

\* the encoder's source returned / raised
SourceExhausted ==
    IF encSource = "adapter" THEN adPc = "done" ELSE aggPc = "done"

SourceRaised == encSource = "adapter" /\ adPc = "raised"

\* C7: once the encoder has handled the end of its source: if the source
\* raised after k chunks the output is the k chunk frames and one error frame
\* describing the exception, with no end frame; if the source returned after
\* k chunks the output is the k chunk frames and one end frame, k+1 frames,
\* and the end frame's only field is the kind.
C7_EncoderTermination ==
    /\ (SourceRaised /\ encPc \in {"err", "done"}) =>
          /\ wire = FrameSeq(SourceOut) \o <<Frame(ErrorChunk("source"))>>
          /\ CountKind(WireKinds, "end") = 0
    /\ (SourceExhausted /\ encPc \in {"end", "done"}) =>
          /\ wire = FrameSeq(SourceOut) \o <<Frame(EndChunk)>>
          /\ Len(wire) = Len(SourceOut) + 1
          /\ DOMAIN wire[Len(wire)].json = {"type"}
          /\ wire[Len(wire)].json.type = "end"

C7_Witness ==
    /\ conPc = "done"
    /\ SourceRaised
    /\ Len(adapterOut) = 2
    /\ Len(wire) = 3

\* C8: save_question is called at most once in an exchange, and when it has
\* been called the wrapped sequence is exhausted, the aggregator has forwarded
\* every chunk of it and the frame of every one of them is on the wire.
C8_SaveOnceAfterLastChunk ==
    /\ Len(saveCalls) <= 1
    /\ saveCalls # <<>> =>
          /\ adPc = "done"
          /\ Forwarded = adapterOut
          /\ PrefixWithin(FrameSeq(adapterOut), wire, 2)

C8_Witness ==
    /\ saveCalls # <<>>
    /\ Len(adapterOut) >= 3
    /\ adapterOut[Len(adapterOut)].type = "tokens"

\* C9 (as stated): when the aggregator has finished: if the wrapped sequence
\* or its construction raised, the aggregator's last chunk is its single error
\* chunk and save_question was not called; and save_question was called if and
\* only if the wrapped sequence was exhausted without an exception.
C9_SaveIffExhausted ==
    aggPc = "done" =>
        /\ adPc # "done" =>
              /\ saveCalls = <<>>
              /\ aggErr
              /\ aggOut[Len(aggOut)].type = "error"
        /\ Len(saveCalls) = 1 <=> adPc = "done"

\* C10 (as stated): when the adapter ended its sequence with an in-band error
\* chunk and the aggregator has run its persistence step, save_question was
\* called exactly once, with the concatenation of the content chunks
\* forwarded before the error chunk.
C10_SaveAfterInBandError ==
    (adPc = "done" /\ adapterOut[Len(adapterOut)].type = "error"
        /\ aggPc \in {"err", "done"}) =>
        /\ Len(saveCalls) = 1
        /\ saveCalls[1].answer = ConcatContent(adapterOut)

\* C11: a chunk of kind thought, tokens or error handed to the aggregator
\* leaves complete_answer as it was, whatever sequence the chunk is part of.
C11_NonContentLeavesAnswer ==
    [][(turn = "aggregator" /\ xfer.kind = "chunk" /\ xfer.chunk.type # "content")
          => complete_answer' = complete_answer]_vars

C11_Witness ==
    /\ Len(aggOut) >= 3
    /\ aggOut[1].type = "content"
    /\ {aggOut[2].type, aggOut[3].type} = {"thought", "tokens"}
    /\ complete_answer = aggOut[1].content

\* the chunk kinds that carry text of the answer or of the reasoning
TextKinds == {"content", "thought"}

\* C12: in thinking mode every upstream part the adapter takes is, at that
\* step, skipped when its text is empty and otherwise appended to the
\* adapter's output as one chunk carrying the part's text, of kind thought
\* when the part's flag is set and content otherwise; and no thought or
\* content chunk is appended by any other step.  The output's thought and
\* content chunks are therefore the non-empty parts in delivery order.
C12_ThinkingPartsInOrder ==
    [][adapter = "thinking" =>
          /\ pending' = pending - 1 =>
                adapterOut' =
                    IF ~HasText(part'.text)
                    THEN adapterOut
                    ELSE Append(adapterOut,
                                IF part'.thought
                                THEN ThoughtChunk(part'.text)
                                ELSE ContentChunk(part'.text))
          /\ (adapterOut' # adapterOut
                /\ adapterOut'[Len(adapterOut')].type \in TextKinds) =>
                /\ pending' = pending - 1
                /\ adapterOut = SubSeq(adapterOut', 1, Len(adapterOut') - 1)]_vars

C12_Witness ==
    /\ adapter = "thinking"
    /\ nParts = 3 /\ pending = 0
    /\ ChunkKinds(adapterOut) = <<"thought", "content">>
    /\ part.text = <<>>

\* C13: the output of the standard Gemini adapter and of the tool-augmented
\* adapter never holds a chunk of kind thought, whatever the upstream parts'
\* thought flags are.
C13_NoThoughtOutsideThinking ==
    adapter \in {"standard", "openai"} =>
        \A i \in 1..Len(adapterOut) : adapterOut[i].type # "thought"

C13_Witness ==
    /\ adapter = "standard"
    /\ part.thought /\ part.text # <<>>
    /\ adapterOut # <<>>
    /\ adapterOut[Len(adapterOut)] = ContentChunk(part.text)

\* C14 (as stated): a tokens chunk in an adapter's output has thoughts_tokens
\* populated if and only if the adapter is the thinking one, whatever usage
\* metadata the upstream sent.
C14_ThoughtTokensIffThinking ==
    \A i \in 1..Len(adapterOut) :
        adapterOut[i].type = "tokens" =>
            (adapterOut[i].thoughts_tokens # NoneInt <=> adapter = "thinking")

\* the usage total the upstream reported for the exchange, None when it
\* reported none: for the Gemini adapters the total_token_count of the last
\* response object, for the tool-augmented adapter the agent run's total
UpstreamTotal ==
    IF adapter \in GeminiAdapters
    THEN IF HasUsageMetadata(final_response) /\ final_response # "null"
         THEN UsageTotal(final_response)
         ELSE NoneInt
    ELSE agent_usage

\* C15 (as stated): for every adapter, a tokens chunk in the adapter's output
\* carries the upstream-reported total whenever the upstream reported one.
C15_UpstreamTotalPreferred ==
    \A i \in 1..Len(adapterOut) :
        (adapterOut[i].type = "tokens" /\ UpstreamTotal # NoneInt) =>
            adapterOut[i].tokens = UpstreamTotal

RECURSIVE ConcatThoughts(_)
\* the concatenation of the text of the thought-kind chunks, in order
ConcatThoughts(chunks) ==
    IF chunks = <<>> THEN <<>>
    ELSE (IF Head(chunks).type = "thought" THEN Head(chunks).content ELSE <<>>)
         \o ConcatThoughts(Tail(chunks))

\* the upstream reported no usage for the exchange
UsageAbsent ==
    IF adapter \in GeminiAdapters
    THEN final_response \in {"none", "noattr", "null"}
    ELSE agent_usage = NoneInt

\* C16 (as stated): when the upstream usage is absent, a tokens chunk carries
\* words(question) + words(answer) in the standard and thinking adapters and
\* max(1, floor(0.75 * (words(question) + words(answer)))) in the
\* tool-augmented adapter, answer being the concatenation of the content
\* chunks emitted; in thinking mode thoughts_tokens is words(thoughts).
C16_EstimateFormula ==
    \A i \in 1..Len(adapterOut) :
        (adapterOut[i].type = "tokens" /\ UsageAbsent) =>
            LET sum == Words(question) + Words(ConcatContent(adapterOut))
            IN  /\ adapterOut[i].tokens =
                      IF adapter = "openai" THEN AtLeastOne((3 * sum) \div 4) ELSE sum
                /\ adapter = "thinking" =>
                      adapterOut[i].thoughts_tokens = Words(ConcatThoughts(adapterOut))

\* a Gemini adapter has passed add_ai_message and computed its usage figure
UsageExtracted ==
    /\ adapter \in GeminiAdapters
    /\ history[Len(history)].role = "ai"

\* C17: in the Gemini adapters the usage extraction never raises into the
\* adapter and never becomes an error chunk; when it was run on a missing
\* response or on missing or None usage metadata, the adapter's last chunk is
\* a tokens chunk whose tokens field holds an integer.
C17_UsageFailureRecovered ==
    adapter \in GeminiAdapters =>
        /\ ~(xfer.kind = "raise" /\ xfer.err = "usage")
        /\ \A i \in 1..Len(adapterOut) : adapterOut[i] # ErrorChunk("usage")
        /\ (UsageExtracted /\ UsageAbsent) =>
              /\ adapterOut # <<>>
              /\ adapterOut[Len(adapterOut)].type = "tokens"
              /\ adapterOut[Len(adapterOut)].tokens \in Nat

C17_Witness ==
    /\ adapter = "standard"
    /\ UsageExtracted
    /\ final_response = "null"
    /\ full_response # <<>>
    /\ adPc = "done"
    /\ adapterOut[Len(adapterOut)] = TokensChunk(Words(full_response) + Words(question))

\* the chunk kinds of StreamingChunk.type
Kinds == {"content", "thought", "tokens", "error", "end"}

\* a chunk whose populated fields are those of its kind
FieldsMatchKind(c) ==
    /\ c.type \in Kinds
    /\ c.content # NoneText <=> c.type \in TextKinds
    /\ c.tokens # NoneInt <=> c.type = "tokens"
    /\ c.error # NoneStr <=> c.type = "error"
    /\ c.type = "end" => PopulatedFields(c) = {"type"}

\* a frame whose serialized fields are those of its kind
FrameMatchesKind(f) ==
    /\ f.json.type \in Kinds
    /\ "content" \in DOMAIN f.json <=> f.json.type \in TextKinds
    /\ "tokens" \in DOMAIN f.json <=> f.json.type = "tokens"
    /\ "error" \in DOMAIN f.json <=> f.json.type = "error"
    /\ f.json.type = "end" => DOMAIN f.json = {"type"}

\* C18 (as stated): every chunk an adapter or the aggregator emitted and
\* every frame the encoder wrote has exactly the fields of its kind populated.
C18_FieldsMatchKind ==
    /\ \A i \in 1..Len(adapterOut) : FieldsMatchKind(adapterOut[i])
    /\ \A i \in 1..Len(aggOut) : FieldsMatchKind(aggOut[i])
    /\ \A i \in 1..Len(wire) : FrameMatchesKind(wire[i])

\* an exchange that ran to its end without a failure in any layer: the
\* adapter ended with its tokens chunk, the answer was saved, nothing raised
\* in the aggregator or the encoder and the consumer has read the last frame
SuccessfulExchange ==
    /\ conPc = "done"
    /\ adapterOut # <<>> /\ adapterOut[Len(adapterOut)].type = "tokens"
    /\ saveCalls # <<>> /\ ~aggErr
    /\ encFail = "none"

\* C19: no adapter and no aggregator output holds an end chunk, the wire
\* holds at most one end frame, and after a successful exchange the last
\* frame is the end frame and the one before it the tokens frame.
C19_EndOnlyFromEncoder ==
    /\ \A i \in 1..Len(adapterOut) : adapterOut[i].type # "end"
    /\ \A i \in 1..Len(aggOut) : aggOut[i].type # "end"
    /\ CountKind(WireKinds, "end") <= 1
    /\ SuccessfulExchange =>
          /\ Len(wire) >= 2
          /\ WireKinds[Len(wire)] = "end"
          /\ WireKinds[Len(wire) - 1] = "tokens"

C19_Witness ==
    /\ SuccessfulExchange
    /\ WireKinds = <<"content", "content", "tokens", "end">>

\* chunk.type == "content"
IsContent(c) == c.type = "content"

\* the chunks ask_with_streaming_chunks yielded after its token loop
AfterTokenLoop == SubSeq(adapterOut, nParts + 1, Len(adapterOut))

\* C20: once the agent run has returned its final value, the content chunks
\* yielded after the token loop are exactly one chunk carrying the final
\* value when it differs from the concatenation of the streamed tokens and
\* none when it is equal, and a tokens chunk comes only after them.
C20_FinalValueChunk ==
    (adapter = "openai" /\ final_result # NoneText) =>
        LET streamed == ConcatContent(SubSeq(adapterOut, 1, nParts))
            extra == SelectSeq(AfterTokenLoop, IsContent)
        IN  /\ extra = IF final_result # streamed
                       THEN <<ContentChunk(final_result)>>
                       ELSE <<>>
            /\ \A i \in 1..Len(AfterTokenLoop) :
                  AfterTokenLoop[i].type = "tokens" => i = Len(extra) + 1

C20_Witness ==
    /\ adapter = "openai"
    /\ nParts >= 1
    /\ final_result = <<"{", "x">>
    /\ Len(adapterOut) = nParts + 2
    /\ adapterOut[nParts + 1] = ContentChunk(final_result)
    /\ adapterOut[nParts + 2].type = "tokens"

\* C21: when a Gemini adapter has emitted its tokens chunk, the exchange has
\* added exactly two messages to the session's history: the user's question,
\* then a model message that is the concatenation of the content chunks
\* emitted; the text of thought chunks is in neither.
C21_TwoMessagesPerExchange ==
    (adapter \in GeminiAdapters /\ adapterOut # <<>>
        /\ adapterOut[Len(adapterOut)].type = "tokens") =>
        history = <<LocaleMessage,
                    [role |-> "user", text |-> question],
                    [role |-> "ai", text |-> ConcatContent(adapterOut)]>>

C21_Witness ==
    /\ adapter = "thinking"
    /\ adapterOut # <<>>
    /\ adapterOut[Len(adapterOut)].type = "tokens"
    /\ ConcatThoughts(adapterOut) # <<>>
    /\ ConcatContent(adapterOut) # <<>>
    /\ Len(history) = 3
    /\ history[3].text = ConcatContent(adapterOut)

\* C22 (as stated): within an exchange the history is read only at the start
\* of the adapter, and a message is appended to it only once the upstream
\* generation has finished.
C22_HistoryAppendedAtEnd ==
    [][/\ contents' # contents => adPc = "start"
       /\ history' # history => adPc = "after"]_vars

\* C23: on each question route, when the session is absent or belongs to
\* another user, the handler answers the same 404 in both cases and nothing
\* else happens: no adapter is selected or constructed, no frame is written,
\* and neither the history nor the question store is written.
C23_NotFoundBeforeStreaming ==
    lookup \in {"absent", "other"} =>
        /\ turn # "route" => http = NotFound
        /\ http \in {NoResponse, NotFound}
        /\ adapter = "none" /\ constructed = <<>>
        /\ conPc = "idle" /\ wire = <<>>
        /\ history = <<LocaleMessage>> /\ saveCalls = <<>>

C23_Witness ==
    /\ lookup = "other"
    /\ route = "thinking-chat-gemini"
    /\ http = NotFound

\* C24: when the client has disconnected before the wrapped sequence was
\* exhausted, save_question has not been called, and neither the disconnect
\* nor anything after it calls save_question or makes the aggregator emit a
\* chunk.
C24_NoSaveAfterDisconnect ==
    /\ [](conPc = "closed" /\ adPc # "done" => saveCalls = <<>>)
    /\ [][conPc' = "closed" => UNCHANGED <<saveCalls, aggOut, aggErr>>]_vars

C24_Witness ==
    /\ conPc = "closed"
    /\ adPc = "cancelled" /\ aggPc = "cancelled"
    /\ complete_answer # <<>>
    /\ saveCalls = <<>> /\ ~aggErr

\* C25 (as stated): once the client has disconnected, no adapter waits for
\* the upstream any more and no agent run is executing for the exchange.
C25_UnwoundAfterDisconnect ==
    conPc = "closed" => (waiting = "none" /\ task # "running")

\* C26: an exception is only ever in flight inside the adapter, the
\* aggregator or the encoder, never at the transport, and the step that
\* handles it appends an error chunk with the exception's description to the
\* output of the layer that caught it (for the encoder, an error frame).
C26_NoExceptionToTransport ==
    /\ [](xfer.kind = "raise" => turn \in {"adapter", "aggregator", "encoder"})
    /\ [][xfer.kind = "raise" =>
            \/ turn = "adapter"
               /\ adapterOut' = Append(adapterOut, ErrorChunk(xfer.err))
            \/ turn = "aggregator"
               /\ aggOut' = Append(aggOut, ErrorChunk(xfer.err))
            \/ turn = "encoder"
               /\ wire' = Append(wire, [prefix |-> "data: ",
                                        json |-> [type |-> "error", error |-> xfer.err],
                                        suffix |-> "\n\n"])]_vars

C26_Witness ==
    /\ conPc = "done"
    /\ encFail = "encode"
    /\ Len(wire) >= 2
    /\ wire[Len(wire)].json = [type |-> "error", error |-> "encode"]

\* C27: when the upstream call, the fragment iteration or the agent run
\* raises in an adapter, the adapter's output so far holds only content and
\* thought chunks and the handling step appends one error chunk with the
\* exception's description; after its error chunk the adapter emits nothing,
\* fetches nothing and makes no further upstream call.
C27_UpstreamFailureEndsSequence ==
    /\ [][(turn = "adapter" /\ xfer.kind = "raise"
              /\ xfer.err \in {"upstream", "agent"}) =>
            /\ \A i \in 1..Len(adapterOut) : adapterOut[i].type \in TextKinds
            /\ adapterOut' = Append(adapterOut, ErrorChunk(xfer.err))
            /\ adPc' = "err"]_vars
    /\ [][adPc = "err" =>
            /\ adPc' \in {"err", "done"}
            /\ UNCHANGED <<adapterOut, nFetched, nParts, pending, waiting, task>>]_vars

C27_Witness ==
    /\ adapter = "thinking"
    /\ adPc = "done"
    /\ ChunkKinds(adapterOut) = <<"thought", "content", "error">>
    /\ adapterOut[3] = ErrorChunk("upstream")

\* the event-loop thread is not held by a blocking call of this request, so
\* the coroutines of other requests can be scheduled
LoopFree == waiting # "loop"

\* C28 (as stated): whenever a Gemini adapter waits for the upstream call or
\* for its next fragment, the event loop is free for other requests.
C28_UpstreamOffEventLoop ==
    (adapter \in GeminiAdapters /\ waiting # "none") => LoopFree

\* the frames the encoder made from chunks of its source
ChunkFrames == SubSeq(wire, 1, Len(wire) - EncoderOwn)

\* C29: every frame starts with "data: " and ends with a blank line; the
\* i-th frame made from a chunk carries exactly the non-null fields of the
\* i-th chunk of the source, with their values; and when a source of k
\* chunks has returned, the output is those k frames and the end frame.
C29_OneFramePerChunk ==
    /\ \A i \in 1..Len(wire) :
          wire[i].prefix = "data: " /\ wire[i].suffix = "\n\n"
    /\ Len(ChunkFrames) <= Len(SourceOut)
    /\ \A i \in 1..Len(ChunkFrames) :
          /\ DOMAIN wire[i].json = PopulatedFields(SourceOut[i])
          /\ \A f \in DOMAIN wire[i].json : wire[i].json[f] = SourceOut[i][f]
    /\ (SourceExhausted /\ encPc \in {"end", "done"}) =>
          /\ Len(wire) = Len(SourceOut) + 1
          /\ wire[Len(wire)].json = [type |-> "end"]

C29_Witness ==
    /\ encSource = "adapter"
    /\ conPc = "done" /\ SourceExhausted
    /\ ChunkKinds(SourceOut) = <<"thought", "content", "tokens">>
    /\ Len(wire) = 4
    /\ wire[3].json = [type |-> "tokens", tokens |-> 10]

C38_EncodeFailureStopsExchange ==
    encFail = "encode" =>
        /\ aggOut # <<>>
        /\ wire = FrameSeq(SubSeq(aggOut, 1, Len(aggOut) - 1))
                    \o <<Frame(ErrorChunk("encode"))>>
        /\ \A i \in 1..(Len(wire) - 1) : WireKinds[i] \in TextKinds
        /\ CountKind(WireKinds, "error") = 1
        /\ CountKind(WireKinds, "end") = 0
        /\ encPc \in {"err", "done"}
        /\ aggPc = "loop"
        /\ adapterOut = aggOut
        /\ adPc \notin {"tokens", "err", "done"}
        /\ saveCalls = <<>>

C38_Witness ==
    /\ encFail = "encode"
    /\ conPc = "done"
    /\ WireKinds = <<"content", "thought", "error">>
    /\ Len(aggOut) = 3
    /\ aggOut[3].type = "content"
    /\ saveCalls = <<>>

\* C35: in a Gemini exchange that ended with its tokens chunk and whose
\* Question was saved, exactly one Question was saved and the last message of
\* the session's history is the model message whose text is that Question's
\* answer.
C35_HistoryAnswerIsSavedAnswer ==
    (adapter \in GeminiAdapters /\ adapterOut # <<>>
        /\ adapterOut[Len(adapterOut)].type = "tokens"
        /\ saveCalls # <<>>) =>
        /\ Len(saveCalls) = 1
        /\ history[Len(history)] = [role |-> "ai", text |-> saveCalls[1].answer]
        /\ saveCalls[1].answer = complete_answer
        /\ saveCalls[1].answer = full_response

C35_Witness ==
    /\ adapter = "thinking"
    /\ SuccessfulExchange
    /\ ChunkKinds(adapterOut) = <<"content", "thought", "content", "tokens">>
    /\ saveCalls[1].answer = <<"a", " ", "b">>
    /\ history[3].text = <<"a", " ", "b">>

\* the content and thought chunks of a chunk sequence
TextChunks(chunks) == {i \in 1..Len(chunks) : chunks[i].type \in TextKinds}

\* C37: every content or thought chunk a Gemini adapter has emitted carries a
\* text that is neither absent nor empty, and the adapter has emitted as many
\* of them as it has met upstream parts with a text; a response object without
\* parts and a part whose text is empty or absent add no chunk.
C37_NoEmptyFragment ==
    adapter \in GeminiAdapters =>
        /\ \A i \in TextChunks(adapterOut) : HasText(adapterOut[i].content)
        /\ Cardinality(TextChunks(adapterOut)) = nTextParts
        /\ nTextParts <= nParts

C37_Witness ==
    /\ adapter = "standard"
    /\ adPc = "done"
    /\ nFetched = 2 /\ nParts = 3 /\ nTextParts = 1
    /\ part.text = NoneText
    /\ ChunkKinds(adapterOut) = <<"content", "tokens">>

\* the chunk sequence holds a tokens chunk
HasTokens(kinds) == CountKind(kinds, "tokens") > 0

\* C34: in a Gemini exchange, when the tokens chunk has been emitted the model
\* answer is already the last message of the history, and when the Question
\* of an exchange with a tokens chunk has been saved the tokens frame is
\* already on the wire and the adapter has been resumed after it and has
\* returned.  A client that goes away once the tokens frame is out leaves the
\* answer in the history and no Question saved.
C34_CompletionOrder ==
    (adapter \in GeminiAdapters /\ HasTokens(ChunkKinds(adapterOut))) =>
        /\ Len(history) = 3
        /\ history[3] = [role |-> "ai", text |-> full_response]
        /\ saveCalls # <<>> =>
              /\ HasTokens(ChunkKinds(aggOut))
              /\ HasTokens(WireKinds)
              /\ adPc = "done"

C34_Witness ==
    /\ adapter = "standard"
    /\ conPc = "closed"
    /\ WireKinds = <<"content", "content", "tokens">>
    /\ history[3] = [role |-> "ai", text |-> <<"a", " ", "b">>]
    /\ saveCalls = <<>>

\* what Agent.ask yielded after the streamed tokens
AskAfterTokens == SubSeq(adapterOut, nParts + 1, Len(adapterOut))

\* C39 (as stated): when the legacy Agent.ask has returned, the streamed
\* tokens are followed by exactly one value when the run's final value differs
\* from their concatenation (the parsed AgentFlow when the final value starts
\* with the steps marker and validates, the raw string otherwise) and by
\* nothing when it is equal.
C39_FinalValueYieldedOnce ==
    (adapter = "ask" /\ adPc = "done") =>
        AskAfterTokens =
            IF final_result # full_response
            THEN <<IF StartsWithSteps(final_result) /\ ValidAgentFlow(final_result)
                   THEN Yielded("AgentFlow", final_result)
                   ELSE Yielded("str", final_result)>>
            ELSE <<>>

\* the save_session calls made for the session of call c
SavesOf(c) == {i \in 1..Len(session_saves) : session_saves[i].id = created[c].ret.id}

\* C31: for every create_session call: the session is handed to save_session
\* at most once and the session's history never holds more than one message;
\* the locale message is added only after the session was saved; and when
\* the call has returned, the session was saved exactly once with the calling
\* user and the requested locales, and its history is the one user message
\* that names the session's first locale.
C31_SaveThenLocaleMessage ==
    \A c \in Creates :
        LET h == chat_history[HistoryFile(created[c].ret.id)]
        IN created[c].pc # "idle" =>
              /\ Cardinality(SavesOf(c)) = 1
              /\ \A i \in SavesOf(c) :
                    session_saves[i] =
                        MkSession(created[c].ret.id, created[c].user, created[c].locales)
              /\ Len(h) <= 1
              /\ h # <<>> => created[c].pc = "returned"
              /\ created[c].pc = "returned" =>
                    /\ Len(h) = 1
                    /\ h[1].role = "user"
                    /\ Contains(h[1].text, created[c].locales[1])
                    /\ h[1].text = <<"this is my locale: ">> \o created[c].locales[1]

C31_Witness ==
    /\ created[1].pc = "returned" /\ created[2].pc = "returned"
    /\ created[1].user = "u" /\ created[2].user = "v"
    /\ created[1].locales = <<<<"f">>, <<"e">>>>
    /\ Len(session_saves) = 2
    /\ chat_history[HistoryFile(created[1].ret.id)]
          = <<[role |-> "user", text |-> <<"this is my locale: ", "f">>]>>

\* the k-th message exchange e adds to the history: its question, then its
\* answer
OwnMessage(e, k) ==
    IF k = 1 THEN [role |-> "user", text |-> exch[e].question]
             ELSE [role |-> "ai", text |-> exch[e].full_response]

RECURSIVE AddedBy(_, _)
\* the number of messages the exchanges es added to the file f
AddedBy(es, f) ==
    IF es = {} THEN 0
    ELSE LET e == CHOOSE x \in es : TRUE
         IN (IF FileOf(e) = f THEN Len(exch[e].mine) ELSE 0) + AddedBy(es \ {e}, f)

\* exchange e emitted its tokens chunk and nothing failed in it
Succeeded(e) == exch[e].pc \in {"tokens", "done"} /\ exch[e].error = NoneStr

\* C32: with two exchanges side by side, every message an exchange added is
\* still in the history of its session at the place it got, no two messages
\* got the same place, the history holds nothing else but its first message,
\* and an exchange that succeeded added exactly two messages: its own question
\* and, after it, its own answer.
C32_InterleavedButNotLost ==
    /\ \A f \in HistoryFiles : Len(chat_history[f]) = 1 + AddedBy(Exchanges, f)
    /\ \A e \in Exchanges : \A k \in 1..Len(exch[e].mine) :
          /\ exch[e].mine[k] \in 2..Len(chat_history[FileOf(e)])
          /\ chat_history[FileOf(e)][exch[e].mine[k]] = OwnMessage(e, k)
    /\ \A e1, e2 \in Exchanges :
          (e1 # e2 /\ FileOf(e1) = FileOf(e2)) =>
              \A k1 \in 1..Len(exch[e1].mine), k2 \in 1..Len(exch[e2].mine) :
                  exch[e1].mine[k1] # exch[e2].mine[k2]
    /\ \A e \in Exchanges :
          Succeeded(e) => (Len(exch[e].mine) = 2 /\ exch[e].mine[1] < exch[e].mine[2])

\* the second exchange read the first one's question without its answer, and
\* the history holds the two questions one after the other
C32_Witness ==
    /\ exch[1].adapter = "standard" /\ exch[2].adapter = "thinking"
    /\ Succeeded(1) /\ Succeeded(2)
    /\ ContentsOf(2) =
          <<[role |-> "user", parts |-> <<<<"this is my locale: ", "e">>>>],
            [role |-> "user", parts |-> <<<<"q">>>>],
            [role |-> "user", parts |-> <<<<"r">>>>]>>
    /\ chat_history[HistoryFile("A")] =
          <<StartSessionMessage(StoredSessions[1]),
            [role |-> "user", text |-> <<"q">>],
            [role |-> "user", text |-> <<"r">>],
            [role |-> "ai", text |-> <<"a">>],
            [role |-> "ai", text |-> <<" ", "b">>]>>
    /\ exch[1].full_response = <<"a">>

\* C33: a Gemini exchange whose upstream call or fragment iteration failed
\* has added exactly one message to the history, its question, which stays
\* where it was added; when the other exchange added its first message after
\* that question, the history holds two user messages one after the other.
C33_QuestionStaysAfterFailure ==
    \A e \in Exchanges :
        (exch[e].adapter \in GeminiAdapters /\ exch[e].error = "upstream") =>
            LET h == chat_history[FileOf(e)]
                i == exch[e].mine[1]
            IN /\ Len(exch[e].mine) = 1
               /\ i <= Len(h)
               /\ h[i] = [role |-> "user", text |-> exch[e].question]
               /\ \A e2 \in Exchanges \ {e} :
                     (FileOf(e2) = FileOf(e) /\ exch[e2].mine # <<>>
                         /\ exch[e2].mine[1] > i) =>
                         /\ h[i + 1].role = "user"
                         /\ h[i + 1].text = exch[e2].question

\* the first exchange failed after a fragment, the second one ran after it
C33_Witness ==
    /\ exch[1].adapter = "standard" /\ exch[1].error = "upstream"
    /\ exch[1].pc = "done" /\ exch[1].full_response = <<"a">>
    /\ exch[2].adapter = "standard" /\ Succeeded(2)
    /\ exch[2].conversation_history =
          <<StartSessionMessage(StoredSessions[1]),
            [role |-> "user", text |-> <<"q">>],
            [role |-> "user", text |-> <<"r">>]>>
    /\ Len(chat_history[HistoryFile("A")]) = 4

\* C36: the history of a session holds, after its first message, only
\* messages that an exchange on that session added (so an exchange leaves the
\* history of every other session as it was), and every Question an exchange
\* saved references the session of that exchange; this holds for the three
\* adapters and for exchanges that succeeded, failed in band, failed with an
\* exception or were cancelled.
C36_OtherSessionsUntouched ==
    /\ \A c \in Creates :
          LET f == HistoryFile(StoredSessions[c].id)
              h == chat_history[f]
          IN /\ h[1] = StartSessionMessage(StoredSessions[c])
             /\ \A i \in 2..Len(h) :
                   \E e \in Exchanges :
                      /\ exch[e].session = StoredSessions[c]
                      /\ \E k \in 1..Len(exch[e].mine) :
                            exch[e].mine[k] = i /\ h[i] = OwnMessage(e, k)
             /\ (\A e \in Exchanges : exch[e].session # StoredSessions[c]) =>
                   h = <<StartSessionMessage(StoredSessions[c])>>
    /\ \A e \in Exchanges : \A i \in 1..Len(exch[e].saved) :
          /\ exch[e].saved[i].session = exch[e].session
          /\ exch[e].saved[i].question = exch[e].question

\* an agent exchange on A that was cancelled and whose run went on, and a
\* Gemini exchange on B that failed in band and was saved
C36_Witness ==
    /\ exch[1].adapter = "openai" /\ exch[1].pc = "cancelled"
    /\ exch[1].task = "done" /\ Len(exch[1].mine) = 2
    /\ exch[2].session = StoredSessions[2]
    /\ exch[2].adapter = "thinking" /\ exch[2].error = "upstream"
    /\ exch[2].pc = "done" /\ Len(exch[2].saved) = 1
    /\ exch[2].saved[1].session.id = "B"
    /\ Len(chat_history[HistoryFile("A")]) = 3
    /\ Len(chat_history[HistoryFile("B")]) = 2

====
